---- MODULE Spec2Model ----
(***************************************************************************)
(* State-machine model of vi-speech-to-text:                               *)
(*   - the chunked transcription generator of transcription.py             *)
(*     (chunked_transcription, _generate_chunks and their helpers), and    *)
(*   - the concurrent document generation of postprocess.py                *)
(*     (generate_latex_documents and its per-task worker).                 *)
(* Times are integer milliseconds, sizes are integer bytes, file names are *)
(* sequences of one-character strings.                                     *)
(***************************************************************************)
EXTENDS Integers, Sequences, FiniteSets, TLC

(***************************************************************************)
(* Program constants (transcription.py)                                    *)
(***************************************************************************)
_MAX_CHUNK_BYTES == 25165824

_MIN_CHUNK_MS == 5000

_SUPPORTED_EXTENSIONS ==
    { <<"m","p","3">>, <<"m","p","4">>, <<"m","p","e","g">>, <<"m","p","g","a">>,
      <<"m","4","a">>, <<"o","g","g">>, <<"w","a","v">>, <<"w","e","b","m">> }

\* An Optional value is <<>> (None) or <<v>>.
NoneVal == <<>>
Some(v) == <<v>>

(***************************************************************************)
(* Bounds of the model                                                     *)
(***************************************************************************)
\* Probed durations are 400 us and k * DurationStepUs for k in 1..MaxDurationSteps.
MaxDurationSteps == 3
DurationStepUs == 5500000

Filenames ==
    { <<"a",".","M","P","3">>,            \* supported, upper case
      <<"b",".","c",".","W","a","v">>,    \* supported, mixed case, two dots
      <<"l",".","f","l","a","c">>,        \* lecture.flac: unsupported
      <<"m","p","3">>,                    \* no dot: no suffix
      <<".","o","g","g">>,                \* leading dot only: no suffix
      <<"a",".","m","p","3","x">> }       \* a supported extension as a proper prefix

FileSizes == {1000, 44000}
\* Small budgets, explored with every probe output of the model, and the
\* default budget, explored with a 10 s source of 128 kbit/s.
ByteBudgets == {3000, 11000, 22000, _MAX_CHUNK_BYTES}
ProbeBitRates == {NoneVal, Some(16000)}
TranscriptTexts == {"", "w"}

(***************************************************************************)
(* Arithmetic helpers                                                      *)
(***************************************************************************)
Min(a, b) == IF a <= b THEN a ELSE b
Max(a, b) == IF a >= b THEN a ELSE b

\* floor(a * m / d) for a, m >= 0 and d > 0, without forming a * m.
MulDivFloor(a, m, d) == (a \div d) * m + ((a % d) * m) \div d

RECURSIVE Log2Floor(_)
Log2Floor(n) == IF n <= 1 THEN 0 ELSE 1 + Log2Floor(n \div 2)

RECURSIVE Pow2(_)
Pow2(k) == IF k <= 0 THEN 1 ELSE 2 * Pow2(k - 1)

(***************************************************************************)
(* int(target_duration * 0.7) as Python computes it: 0.7 is the double     *)
(* 0.7 - 0.2 * 2^-52, the product is rounded to 53 bits and int()          *)
(* truncates.  When 10 does not divide 7 * t the result is floor(7t/10).   *)
(* When it does, with N = 7t/10 and 2^k <= N < 2^(k+1), the exact product  *)
(* is N - (2N/7) * 2^-52, which rounds back to N iff 4N <= 7 * 2^k and to  *)
(* the double below N (truncated: N - 1) otherwise.                        *)
(***************************************************************************)
IntTimes07(t) ==
    LET N == (7 * t) \div 10
    IN  IF (7 * t) % 10 = 0 /\ N > 0 /\ 4 * N > 7 * Pow2(Log2Floor(N))
        THEN N - 1
        ELSE N

(***************************************************************************)
(* _infer_audio_format: Path(filename).suffix.lower().lstrip(".")          *)
(***************************************************************************)
UpperChars == <<"A","B","C","D","E","F","G","H","I","J","K","L","M",
                "N","O","P","Q","R","S","T","U","V","W","X","Y","Z">>
LowerChars == <<"a","b","c","d","e","f","g","h","i","j","k","l","m",
                "n","o","p","q","r","s","t","u","v","w","x","y","z">>

LowerChar(c) ==
    IF \E i \in 1..Len(UpperChars) : UpperChars[i] = c
    THEN LowerChars[CHOOSE i \in 1..Len(UpperChars) : UpperChars[i] = c]
    ELSE c

Lower(s) == [i \in 1..Len(s) |-> LowerChar(s[i])]

\* str.rfind("."), 1-based; 0 when there is no dot.
LastDot(name) ==
    IF \E i \in 1..Len(name) : name[i] = "."
    THEN CHOOSE i \in 1..Len(name) :
            name[i] = "." /\ \A j \in (i+1)..Len(name) : name[j] # "."
    ELSE 0

\* PurePath.suffix of a one-component name: from the last dot on, unless that
\* dot is the first or the last character.
PathSuffix(name) ==
    LET i == LastDot(name)
    IN  IF 1 < i /\ i < Len(name) THEN SubSeq(name, i, Len(name)) ELSE <<>>

RECURSIVE LStripDot(_)
LStripDot(s) == IF s # <<>> /\ Head(s) = "." THEN LStripDot(Tail(s)) ELSE s

Suffix(filename) == LStripDot(Lower(PathSuffix(filename)))

SuffixNoLower(filename) == LStripDot(PathSuffix(filename))

\* The suffix _infer_audio_format tests and returns.
InferredSuffix(filename) == Suffix(filename)

FormatSupported(filename) == InferredSuffix(filename) \in _SUPPORTED_EXTENSIONS

(***************************************************************************)
(* int(b / max(p / q, 1.0)) as Python computes it in double precision,     *)
(* for integers b >= 0, p >= 0, q > 0 in the range of the model            *)
(* (q < 2^15, b * q < 2^50).  With x the double nearest to p / q:          *)
(*   - p <= q: the divisor is 1.0 and the result is b;                     *)
(*   - p does not divide b * q: the two roundings cannot cross an          *)
(*     integer, and the result is floor(b * q / p);                        *)
(*   - b * q / p is an integer n: the result is n unless x was rounded up  *)
(*     (rho, the remainder of p * 2^(52-f) by q, exceeds q / 2, with       *)
(*     2^f <= p / q < 2^(f+1)) by enough that b / x rounds to the double   *)
(*     below n, which int() truncates to n - 1.  With c = q - rho and      *)
(*     2^e <= n < 2^(e+1) that is the case iff m * n * c * 2^f > p * 2^e,  *)
(*     m = 4 when n is a power of two and m = 2 otherwise.                 *)
(***************************************************************************)
\* 2^k mod q
RECURSIVE PowMod2(_, _)
PowMod2(k, q) == IF k <= 0 THEN 1 % q ELSE (2 * PowMod2(k - 1, q)) % q

\* a / c > d / b for positive integers, by the Euclidean algorithm.
RECURSIVE RatGreater(_, _, _, _)
RatGreater(a, c, d, b) ==
    IF a \div c # d \div b THEN a \div c > d \div b
    ELSE IF a % c = 0 THEN FALSE
    ELSE IF d % b = 0 THEN TRUE
    ELSE RatGreater(b, d % b, c, a % c)

FloatQuotientFloor(b, p, q) ==
    IF p <= q THEN b
    ELSE LET n == MulDivFloor(b, q, p)
         IN  IF ((b % p) * (q % p)) % p # 0 \/ n = 0 THEN n
             ELSE LET f == Log2Floor(p \div q)
                      rho == ((p % q) * PowMod2(52 - f, q)) % q
                      e == Log2Floor(n)
                      m == IF n = Pow2(e) THEN 4 ELSE 2
                  IN  IF 2 * rho <= q THEN n
                      ELSE IF RatGreater(n, Pow2(e), p, m * (q - rho) * Pow2(f))
                           THEN n - 1
                           ELSE n

(***************************************************************************)
(* _estimate_chunk_duration.  bytes_per_ms is the double (bit_rate/8)/1000 *)
(* or file_size/max(duration_ms, 1), floored at 1.0; `if bit_rate:` and    *)
(* `elif duration_ms:` treat None and 0 alike.  bitRate is an Optional.    *)
(***************************************************************************)
_estimate_chunk_duration(duration_ms, bitRate, fileSize, maxChunkBytes) ==
    LET known == bitRate # NoneVal /\ bitRate[1] # 0
        approx_ms ==
            IF known
            THEN FloatQuotientFloor(maxChunkBytes, bitRate[1], 8000)
            ELSE IF duration_ms # 0
                 THEN FloatQuotientFloor(maxChunkBytes, fileSize, Max(duration_ms, 1))
                 ELSE maxChunkBytes
    IN  Max(approx_ms, _MIN_CHUNK_MS)

(***************************************************************************)
(* The decisions of _generate_chunks                                       *)
(***************************************************************************)
\* line 313: target_duration = min(approx_chunk_ms, remaining_ms)
TargetNoClamp(approx, total, start) == approx

TargetDuration(approx, total, start) == Min(approx, total - start)

\* line 325: size <= max_chunk_bytes
FitsLoose(size, maxChunkBytes) == size <= maxChunkBytes + 1

FitsStrict(size, maxChunkBytes) == size < maxChunkBytes

Fits(size, maxChunkBytes) == size <= maxChunkBytes

\* line 332: target_duration <= _MIN_CHUNK_MS
AtFloorStrict(target) == target < _MIN_CHUNK_MS

AtFloor(target) == target <= _MIN_CHUNK_MS

\* A shrink that only applies the floor.
ShrinkTargetStuck(target) == Max(_MIN_CHUNK_MS, target)

\* A shrink without the floor.
ShrinkTargetNoFloor(target) == IntTimes07(target)

\* line 337: max(_MIN_CHUNK_MS, int(target_duration * 0.7))
ShrinkTarget(target) == Max(_MIN_CHUNK_MS, IntTimes07(target))

\* line 329: chunk_index += 1
NextIndexCountingExports(idx, exports) == exports

NextIndex(idx, exports) == idx + 1

\* line 328: start_ms += target_duration
AdvanceByApprox(start, target, approx) == start + approx

AdvanceCursor(start, target, approx) == start + target

(***************************************************************************)
(* ChunkTranscript                                                         *)
(***************************************************************************)
ChunkTranscript(idx, s, e, total, text) ==
    [chunk_index |-> idx, start_ms |-> s, end_ms |-> e, total_ms |-> total, text |-> text]

\* ChunkTranscript.progress as the fraction <<numerator, denominator>>:
\* min(end_ms / total_ms, 1.0), and 0.0 when total_ms is 0.  x / x is exactly 1.0.
progress(ct) ==
    IF ct.total_ms = 0 THEN <<0, 1>>
    ELSE IF ct.end_ms >= ct.total_ms THEN <<1, 1>>
    ELSE <<ct.end_ms, ct.total_ms>>

(***************************************************************************)
(* State of one transcription run                                          *)
(***************************************************************************)
VARIABLES
    pc,               \* position of the chunked_transcription generator: "created",
                      \* "probe" (ffprobe running), "export" (ffmpeg running),
                      \* "transcribe" (remote call running), "yielded" (suspended
                      \* at its yield), "done", "failed", "closed"
    filename,         \* the declared file name
    sourceIsLocal,    \* file.name is an existing local file
    file_size,        \* size of the prepared file, bytes
    max_chunk_bytes,  \* the byte budget
    tmpFile,          \* the temporary copy: "none", "present", "removed"
    tmpCreated,       \* temporary copies created so far
    total_ms,         \* metadata.duration_ms
    bit_rate,         \* metadata.bit_rate, or NoneVal
    approx_chunk_ms,  \* the planner's estimate
    start_ms,         \* cursor of _generate_chunks
    chunk_index,      \* index of the segment being produced
    target_duration,  \* duration of the next export
    exportLog,        \* every export that returned: its request, its size, and the
                      \* index, the remote calls made and the elements yielded
                      \* when it was requested
    accepted,         \* segments yielded by _generate_chunks
    yielded,          \* ChunkTranscripts yielded to the consumer
    procs,            \* external processes that have returned (ffprobe, ffmpeg)
    remoteCalls,      \* remote transcription calls that have returned
    chunkFiles,       \* exporter output files left on disk
    error,            \* the failure that ended the run, or "none"
    procsInFlight,    \* subprocess.run calls that have not returned yet
    callsInFlight,    \* remote transcription calls that have not returned yet
    pulls,            \* next() calls the consumer has made
    probeOut          \* what the probe returned: <<>> before it returns, then
                      \* <<[outcome, duration]>>

tvars == <<pc, filename, sourceIsLocal, file_size, max_chunk_bytes, tmpFile,
           tmpCreated, total_ms, bit_rate, approx_chunk_ms, start_ms, chunk_index,
           target_duration, exportLog, accepted, yielded, procs, remoteCalls,
           chunkFiles, error, procsInFlight, callsInFlight, pulls, probeOut>>

(***************************************************************************)
(* State of one call of generate_latex_documents                           *)
(***************************************************************************)
VARIABLES
    opc,          \* generate_latex_documents: "idle", "collecting", "returned", "raised"
    transcript,   \* its transcript argument
    tpc,          \* per task: "unstarted", "call", "pass1", "pass2", "read", "ok", "failed"
    tmsg,         \* per task: the message of the exception that failed it
    tresponse,    \* per task: the response of its remote call, NoneVal before it
    tlatex,       \* per task: the text _extract_response_text gave _call_gpt_latex
    tevents,      \* per task: what its steps observed, in order: "call raised",
                  \* "text", "text empty", "exit 0", "exit nonzero",
                  \* "tool missing", "artifact read", "artifact missing"
    genCalls,     \* per task: remote generation calls made
    renders,      \* per task: pdflatex processes run
    workdir,      \* per task: its TemporaryDirectory: "none", "present", "removed"
    finishOrder,  \* the task keys in the order their futures completed
    collected,    \* the futures as_completed has handed to the loop
    documents,    \* the documents list, in the order results were appended
    errors,       \* the errors list
    result,       \* the returned list
    raised        \* the entries of the aggregate DocumentGenerationError

gvars == <<opc, transcript, tpc, tmsg, tresponse, tlatex, tevents, genCalls, renders, workdir,
           finishOrder, collected, documents, errors, result, raised>>

\* app.py: the Streamlit front end.
VARIABLES
    apc,            \* _handle_transcription: "idle" (no request is being handled),
                    \* "transcribing" (in the for loop over chunked_transcription),
                    \* "generating" (in generate_latex_documents)
    state,          \* st.session_state["transcription_state"]: transcript,
                    \* documents, error
    documentsFrom,  \* the transcript argument of the call that returned
                    \* state.documents
    handled         \* how the last request left _handle_transcription: "nothing"
                    \* before the first one, "running", "missing key", "error
                    \* shown", "exception", "no text", "generation failed",
                    \* "documents"

avars == <<apc, state, documentsFrom, handled>>

vars == <<tvars, gvars, avars>>

(***************************************************************************)
(* Probe output: the duration candidates _extract_duration_seconds         *)
(* collects (format first, then streams), each an Optional number of       *)
(* microseconds, and the bit rate _extract_bit_rate returns.               *)
(***************************************************************************)
ProbeDurationValues ==
    { NoneVal, Some(0), Some(-1000000), Some(400) }
        \cup { Some(k * DurationStepUs) : k \in 1..MaxDurationSteps }

ProbeDurationSources ==
    { <<>> } \cup { <<a>> : a \in ProbeDurationValues }
             \cup { <<a, b>> : a \in { NoneVal, Some(0), Some(-1000000), Some(2 * DurationStepUs) },
                               b \in { NoneVal, Some(DurationStepUs) } }

ProbeSourcesFor(budget) ==
    IF budget = _MAX_CHUNK_BYTES THEN { << Some(10000000) >> } ELSE ProbeDurationSources

ProbeBitRatesFor(budget) ==
    IF budget = _MAX_CHUNK_BYTES THEN { Some(128000) } ELSE ProbeBitRates

\* _extract_duration_seconds: the first candidate that is truthy (neither
\* None nor 0), else None.
RECURSIVE _extract_duration_seconds(_)
_extract_duration_seconds(sources) ==
    IF sources = <<>> THEN NoneVal
    ELSE IF Head(sources) # NoneVal /\ Head(sources)[1] # 0 THEN Head(sources)
    ELSE _extract_duration_seconds(Tail(sources))

\* The test of line 196 without its comparison.
DurationUnusableOnlyNone(d) == d = NoneVal

\* line 196: duration_seconds is None or duration_seconds <= 0
DurationUnusable(d) == IF d = NoneVal THEN TRUE ELSE d[1] <= 0

\* line 200: max(int(duration_seconds * 1000), 1), from microseconds
DurationMs(d) == Max(d[1] \div 1000, 1)

(***************************************************************************)
(* Failures.  ErrorKind is the name the specification gives a failure,     *)
(* ExceptionClass the Python class the code raises.                        *)
(***************************************************************************)
ErrorKind(e) ==
    CASE e = "UnsupportedFormat" -> "UnsupportedAudioFormat"
      [] e \in {"ProbeToolMissing", "ProbeToolFailed", "ProbeMalformed", "NoDuration",
                "DurationNaN", "DurationInf"}
            -> "MetadataUnavailable"
      [] e \in {"ExportToolMissing", "ExportToolFailed"} -> "ExportFailed"
      [] e = "ChunkTooLarge" -> "ChunkTooLarge"
      [] e = "RemoteCallFailed" -> "RemoteCallFailed"
      [] OTHER -> "none"

ExceptionClass(e) ==
    CASE e = "UnsupportedFormat" -> "UnsupportedAudioFormatError"
      [] e \in {"ProbeToolMissing", "ExportToolMissing"} -> "RuntimeError"
      [] e \in {"ProbeToolFailed", "ProbeMalformed", "NoDuration", "DurationNaN",
                "ExportToolFailed", "ChunkTooLarge"} -> "ValueError"
      [] e = "DurationInf" -> "OverflowError"
      [] e = "RemoteCallFailed" -> "Exception"
      [] OTHER -> "none"

\* Leaving the block with no finally clause.
ExitPreparedNoFinally(tmp) == tmp

\* Leaving the `with _prepare_local_audio_file(...)` block: the finally clause
\* removes the temporary copy; a local source was never copied.
ExitPrepared(tmp) == IF tmp = "present" THEN "removed" ELSE tmp

InitT ==
    /\ pc = "created"
    /\ filename \in Filenames
    /\ sourceIsLocal \in BOOLEAN
    /\ file_size \in FileSizes
    /\ max_chunk_bytes \in ByteBudgets
    /\ tmpFile = "none"
    /\ tmpCreated = 0
    /\ total_ms = 0
    /\ bit_rate = NoneVal
    /\ approx_chunk_ms = 0
    /\ start_ms = 0
    /\ chunk_index = 0
    /\ target_duration = 0
    /\ exportLog = <<>>
    /\ accepted = <<>>
    /\ yielded = <<>>
    /\ procs = 0
    /\ remoteCalls = 0
    /\ chunkFiles = 0
    /\ error = "none"
    /\ procsInFlight = 0
    /\ callsInFlight = 0
    /\ pulls = 0
    /\ probeOut = <<>>

\* A failure that is recorded while the generator stays where it is and
\* takes the failed step again.
FailAndRetry(e) ==
    /\ pc' = pc
    /\ error' = e
    /\ tmpFile' = tmpFile

\* The run fails inside the with block with error e: the exception leaves
\* chunked_transcription, which has no except clause.
FailPrepared(e) ==
    /\ pc' = "failed"
    /\ error' = e
    /\ tmpFile' = ExitPrepared(tmpFile)

(***************************************************************************)
(* First next() of the generator: _infer_audio_format, then                *)
(* _prepare_local_audio_file up to its yield and the start of ffprobe.     *)
(* Every action runs the generator from the return of one external call    *)
(* (or from a next()) to the start of the next external call, to a yield   *)
(* or to its end.                                                          *)
(***************************************************************************)
StartUnsupported ==
    /\ pc = "created"
    /\ ~FormatSupported(filename)
    /\ pc' = "failed"
    /\ error' = "UnsupportedFormat"
    /\ UNCHANGED <<filename, sourceIsLocal, file_size, max_chunk_bytes, tmpFile,
                   tmpCreated, total_ms, bit_rate, approx_chunk_ms, start_ms,
                   chunk_index, target_duration, exportLog, accepted, yielded,
                   procs, remoteCalls, chunkFiles>>
    /\ pulls' = pulls + 1
    /\ UNCHANGED <<procsInFlight, callsInFlight, probeOut>>
    /\ UNCHANGED gvars
    /\ UNCHANGED avars

StartPrepare ==
    /\ pc = "created"
    /\ FormatSupported(filename)
    /\ IF sourceIsLocal
       THEN UNCHANGED <<tmpFile, tmpCreated>>
       ELSE tmpFile' = "present" /\ tmpCreated' = tmpCreated + 1
    /\ pc' = "probe"
    /\ UNCHANGED <<filename, sourceIsLocal, file_size, max_chunk_bytes, total_ms,
                   bit_rate, approx_chunk_ms, start_ms, chunk_index,
                   target_duration, exportLog, accepted, yielded, procs,
                   remoteCalls, chunkFiles, error>>
    /\ pulls' = pulls + 1
    /\ procsInFlight' = procsInFlight + 1
    /\ UNCHANGED <<callsInFlight, probeOut>>
    /\ UNCHANGED gvars
    /\ UNCHANGED avars

(***************************************************************************)
(* _probe_audio_metadata: one ffprobe process.                             *)
(***************************************************************************)
\* The ways the probe fails without a number to test: ffprobe is missing
\* (line 185), exits non-zero (187), prints malformed JSON (192), or reports
\* a duration that float() parses as nan or inf, which int() refuses (200).
ProbeFailures ==
    {"ProbeToolMissing", "ProbeToolFailed", "ProbeMalformed", "DurationNaN", "DurationInf"}

ProbeFail(e) ==
    /\ pc = "probe"
    /\ e \in ProbeFailures
    /\ procs' = procs + 1
    /\ FailPrepared(e)
    /\ UNCHANGED <<filename, sourceIsLocal, file_size, max_chunk_bytes, tmpCreated,
                   total_ms, bit_rate, approx_chunk_ms, start_ms, chunk_index,
                   target_duration, exportLog, accepted, yielded, remoteCalls,
                   chunkFiles>>
    /\ procsInFlight' = procsInFlight - 1
    /\ probeOut' = Some([outcome |-> e, duration |-> NoneVal])
    /\ UNCHANGED <<callsInFlight, pulls>>
    /\ UNCHANGED gvars
    /\ UNCHANGED avars

ProbeNoDuration(sources) ==
    /\ pc = "probe"
    /\ DurationUnusable(_extract_duration_seconds(sources))
    /\ procs' = procs + 1
    /\ FailPrepared("NoDuration")
    /\ UNCHANGED <<filename, sourceIsLocal, file_size, max_chunk_bytes, tmpCreated,
                   total_ms, bit_rate, approx_chunk_ms, start_ms, chunk_index,
                   target_duration, exportLog, accepted, yielded, remoteCalls,
                   chunkFiles>>
    /\ procsInFlight' = procsInFlight - 1
    /\ probeOut' = Some([outcome |-> "parsed",
                          duration |-> _extract_duration_seconds(sources)])
    /\ UNCHANGED <<callsInFlight, pulls>>
    /\ UNCHANGED gvars
    /\ UNCHANGED avars

\* The probe succeeds; the planner runs and _generate_chunks enters its loop
\* (start_ms = 0 < total_ms) and computes the first target.
ProbeOk(sources, br) ==
    /\ pc = "probe"
    /\ ~DurationUnusable(_extract_duration_seconds(sources))
    /\ procs' = procs + 1
    /\ LET d == DurationMs(_extract_duration_seconds(sources))
           approx == _estimate_chunk_duration(d, br, file_size, max_chunk_bytes)
       IN  /\ total_ms' = d
           /\ bit_rate' = br
           /\ approx_chunk_ms' = approx
           /\ start_ms' = 0
           /\ chunk_index' = 0
           /\ target_duration' = TargetDuration(approx, d, 0)
    /\ pc' = "export"
    /\ UNCHANGED <<filename, sourceIsLocal, file_size, max_chunk_bytes, tmpFile,
                   tmpCreated, exportLog, accepted, yielded, remoteCalls,
                   chunkFiles, error>>
    /\ procsInFlight' = (procsInFlight - 1) + 1
    /\ probeOut' = Some([outcome |-> "parsed",
                          duration |-> _extract_duration_seconds(sources)])
    /\ UNCHANGED <<callsInFlight, pulls>>
    /\ UNCHANGED gvars
    /\ UNCHANGED avars

(***************************************************************************)
(* _export_chunk and the size test of _generate_chunks: one ffmpeg         *)
(* process per export.                                                     *)
(***************************************************************************)
\* The sizes an export may measure: the budget itself and one byte more.
ExportSizes == { max_chunk_bytes, max_chunk_bytes + 1 }

ExportEntry(size) ==
    [start_ms |-> start_ms, duration_ms |-> target_duration, size |-> size,
     chunk_index |-> chunk_index, remoteCalls |-> remoteCalls,
     yielded |-> Len(yielded)]

\* ffmpeg is missing or exits non-zero: the exception leaves _export_chunk
\* before the try/finally that removes its output file.
ExportFail(e) ==
    /\ pc = "export"
    /\ e \in {"ExportToolMissing", "ExportToolFailed"}
    /\ procs' = procs + 1
    /\ chunkFiles' = chunkFiles + 1
    /\ FailPrepared(e)
    /\ UNCHANGED <<filename, sourceIsLocal, file_size, max_chunk_bytes, tmpCreated,
                   total_ms, bit_rate, approx_chunk_ms, start_ms, chunk_index,
                   target_duration, exportLog, accepted, yielded, remoteCalls>>
    /\ procsInFlight' = procsInFlight - 1
    /\ UNCHANGED <<callsInFlight, pulls, probeOut>>
    /\ UNCHANGED gvars
    /\ UNCHANGED avars

\* Acceptance that goes on to export the following segment before the
\* accepted one is transcribed.
ExportAcceptPrefetch(size) ==
    /\ pc = "export"
    /\ Fits(size, max_chunk_bytes)
    /\ procs' = procs + 1
    /\ exportLog' = Append(exportLog, ExportEntry(size))
    /\ accepted' = Append(accepted,
                          [chunk_index |-> chunk_index, start_ms |-> start_ms,
                           end_ms |-> start_ms + target_duration, size |-> size])
    /\ IF start_ms + target_duration < total_ms
       THEN /\ start_ms' = start_ms + target_duration
            /\ chunk_index' = chunk_index + 1
            /\ target_duration' =
                  TargetDuration(approx_chunk_ms, total_ms, start_ms + target_duration)
            /\ pc' = "export"
            /\ UNCHANGED <<procsInFlight, callsInFlight>>
       ELSE /\ pc' = "transcribe"
            /\ procsInFlight' = procsInFlight - 1
            /\ callsInFlight' = callsInFlight + 1
            /\ UNCHANGED <<start_ms, chunk_index, target_duration>>
    /\ UNCHANGED <<filename, sourceIsLocal, file_size, max_chunk_bytes, tmpFile,
                   tmpCreated, total_ms, bit_rate, approx_chunk_ms, yielded,
                   remoteCalls, chunkFiles, error, pulls, probeOut>>
    /\ UNCHANGED gvars
    /\ UNCHANGED avars

\* size <= max_chunk_bytes: the segment is yielded to chunked_transcription,
\* which starts the remote call for it.
ExportAccept(size) ==
    /\ pc = "export"
    /\ Fits(size, max_chunk_bytes)
    /\ procs' = procs + 1
    /\ exportLog' = Append(exportLog, ExportEntry(size))
    /\ accepted' = Append(accepted,
                          [chunk_index |-> chunk_index, start_ms |-> start_ms,
                           end_ms |-> start_ms + target_duration, size |-> size])
    /\ pc' = "transcribe"
    /\ UNCHANGED <<filename, sourceIsLocal, file_size, max_chunk_bytes, tmpFile,
                   tmpCreated, total_ms, bit_rate, approx_chunk_ms, start_ms,
                   chunk_index, target_duration, yielded, remoteCalls, chunkFiles,
                   error>>
    /\ procsInFlight' = procsInFlight - 1
    /\ callsInFlight' = callsInFlight + 1
    /\ UNCHANGED <<pulls, probeOut>>
    /\ UNCHANGED gvars
    /\ UNCHANGED avars

\* size > max_chunk_bytes at or below the floor: ValueError.
ExportTooLarge(size) ==
    /\ pc = "export"
    /\ ~Fits(size, max_chunk_bytes)
    /\ AtFloor(target_duration)
    /\ procs' = procs + 1
    /\ exportLog' = Append(exportLog, ExportEntry(size))
    /\ FailPrepared("ChunkTooLarge")
    /\ UNCHANGED <<filename, sourceIsLocal, file_size, max_chunk_bytes, tmpCreated,
                   total_ms, bit_rate, approx_chunk_ms, start_ms, chunk_index,
                   target_duration, accepted, yielded, remoteCalls, chunkFiles>>
    /\ procsInFlight' = procsInFlight - 1
    /\ UNCHANGED <<callsInFlight, pulls, probeOut>>
    /\ UNCHANGED gvars
    /\ UNCHANGED avars

\* The shrink branch with the cursor moved past the rejected export.
ExportShrinkAdvancing(size) ==
    /\ pc = "export"
    /\ ~Fits(size, max_chunk_bytes)
    /\ ~AtFloor(target_duration)
    /\ procs' = procs + 1
    /\ exportLog' = Append(exportLog, ExportEntry(size))
    /\ target_duration' = ShrinkTarget(target_duration)
    /\ start_ms' = start_ms + target_duration
    /\ pc' = "export"
    /\ UNCHANGED <<filename, sourceIsLocal, file_size, max_chunk_bytes, tmpFile,
                   tmpCreated, total_ms, bit_rate, approx_chunk_ms,
                   chunk_index, accepted, yielded, remoteCalls, chunkFiles, error>>
    /\ procsInFlight' = (procsInFlight - 1) + 1
    /\ UNCHANGED <<callsInFlight, pulls, probeOut>>
    /\ UNCHANGED gvars
    /\ UNCHANGED avars

\* size > max_chunk_bytes above the floor: shrink and export again.
ExportShrink(size) ==
    /\ pc = "export"
    /\ ~Fits(size, max_chunk_bytes)
    /\ ~AtFloor(target_duration)
    /\ procs' = procs + 1
    /\ exportLog' = Append(exportLog, ExportEntry(size))
    /\ target_duration' = ShrinkTarget(target_duration)
    /\ pc' = "export"
    /\ UNCHANGED <<filename, sourceIsLocal, file_size, max_chunk_bytes, tmpFile,
                   tmpCreated, total_ms, bit_rate, approx_chunk_ms, start_ms,
                   chunk_index, accepted, yielded, remoteCalls, chunkFiles, error>>
    /\ procsInFlight' = (procsInFlight - 1) + 1
    /\ UNCHANGED <<callsInFlight, pulls, probeOut>>
    /\ UNCHANGED gvars
    /\ UNCHANGED avars

(***************************************************************************)
(* The remote transcription call for the segment just accepted, and the    *)
(* yield of its ChunkTranscript.                                           *)
(***************************************************************************)
\* A generator that does not suspend at its yield: it hands the element over
\* and goes on to the next segment without being asked.
TranscribeOkEager(text) ==
    /\ pc = "transcribe"
    /\ remoteCalls' = remoteCalls + 1
    /\ yielded' = Append(yielded,
                         ChunkTranscript(chunk_index, start_ms,
                                         start_ms + target_duration, total_ms, text))
    /\ callsInFlight' = callsInFlight - 1
    /\ IF start_ms + target_duration < total_ms
       THEN /\ start_ms' = start_ms + target_duration
            /\ chunk_index' = chunk_index + 1
            /\ target_duration' =
                  TargetDuration(approx_chunk_ms, total_ms, start_ms + target_duration)
            /\ pc' = "export"
            /\ procsInFlight' = procsInFlight + 1
       ELSE /\ pc' = "yielded"
            /\ UNCHANGED <<start_ms, chunk_index, target_duration, procsInFlight>>
    /\ UNCHANGED <<filename, sourceIsLocal, file_size, max_chunk_bytes, tmpFile,
                   tmpCreated, total_ms, bit_rate, approx_chunk_ms, exportLog,
                   accepted, procs, chunkFiles, error, pulls, probeOut>>
    /\ UNCHANGED gvars
    /\ UNCHANGED avars

TranscribeOk(text) ==
    /\ pc = "transcribe"
    /\ remoteCalls' = remoteCalls + 1
    /\ yielded' = Append(yielded,
                         ChunkTranscript(chunk_index, start_ms,
                                         start_ms + target_duration, total_ms, text))
    /\ pc' = "yielded"
    /\ UNCHANGED <<filename, sourceIsLocal, file_size, max_chunk_bytes, tmpFile,
                   tmpCreated, total_ms, bit_rate, approx_chunk_ms, start_ms,
                   chunk_index, target_duration, exportLog, accepted, procs,
                   chunkFiles, error>>
    /\ callsInFlight' = callsInFlight - 1
    /\ UNCHANGED <<procsInFlight, pulls, probeOut>>
    /\ UNCHANGED gvars
    /\ UNCHANGED avars

TranscribeFail ==
    /\ pc = "transcribe"
    /\ remoteCalls' = remoteCalls + 1
    /\ FailPrepared("RemoteCallFailed")
    /\ UNCHANGED <<filename, sourceIsLocal, file_size, max_chunk_bytes, tmpCreated,
                   total_ms, bit_rate, approx_chunk_ms, start_ms, chunk_index,
                   target_duration, exportLog, accepted, yielded, procs, chunkFiles>>
    /\ callsInFlight' = callsInFlight - 1
    /\ UNCHANGED <<procsInFlight, pulls, probeOut>>
    /\ UNCHANGED gvars
    /\ UNCHANGED avars

(***************************************************************************)
(* The consumer asks for the next element: _generate_chunks resumes after  *)
(* its yield, advances the cursor and the index, and tests the loop.       *)
(***************************************************************************)
PullNext ==
    /\ pc = "yielded"
    /\ LET s == AdvanceCursor(start_ms, target_duration, approx_chunk_ms)
       IN  /\ start_ms' = s
           /\ chunk_index' = NextIndex(chunk_index, Len(exportLog))
           /\ IF s < total_ms
              THEN /\ target_duration' = TargetDuration(approx_chunk_ms, total_ms, s)
                   /\ pc' = "export"
                   /\ UNCHANGED tmpFile
              ELSE /\ pc' = "done"
                   /\ tmpFile' = ExitPrepared(tmpFile)
                   /\ UNCHANGED target_duration
    /\ UNCHANGED <<filename, sourceIsLocal, file_size, max_chunk_bytes, tmpCreated,
                   total_ms, bit_rate, approx_chunk_ms, exportLog, accepted, yielded,
                   procs, remoteCalls, chunkFiles, error>>
    /\ pulls' = pulls + 1
    /\ procsInFlight' = IF pc' = "export" THEN procsInFlight + 1 ELSE procsInFlight
    /\ UNCHANGED <<callsInFlight, probeOut>>
    /\ UNCHANGED gvars
    /\ UNCHANGED avars

\* The consumer abandons the generator at a yield: GeneratorExit unwinds the
\* with block.
CloseEarly ==
    /\ pc = "yielded"
    /\ pc' = "closed"
    /\ tmpFile' = ExitPrepared(tmpFile)
    /\ UNCHANGED <<filename, sourceIsLocal, file_size, max_chunk_bytes, tmpCreated,
                   total_ms, bit_rate, approx_chunk_ms, start_ms, chunk_index,
                   target_duration, exportLog, accepted, yielded, procs, remoteCalls,
                   chunkFiles, error>>
    /\ UNCHANGED <<procsInFlight, callsInFlight, pulls, probeOut>>
    /\ UNCHANGED gvars
    /\ UNCHANGED avars

NextT ==
    \/ StartUnsupported
    \/ StartPrepare
    \/ \E e \in ProbeFailures : ProbeFail(e)
    \/ \E sources \in ProbeSourcesFor(max_chunk_bytes) : ProbeNoDuration(sources)
    \/ \E sources \in ProbeSourcesFor(max_chunk_bytes),
          br \in ProbeBitRatesFor(max_chunk_bytes) : ProbeOk(sources, br)
    \/ \E e \in {"ExportToolMissing", "ExportToolFailed"} : ExportFail(e)
    \/ \E size \in ExportSizes : ExportAccept(size)
    \/ \E size \in ExportSizes : ExportTooLarge(size)
    \/ \E size \in ExportSizes : ExportShrink(size)
    \/ \E text \in TranscriptTexts : TranscribeOk(text)
    \/ TranscribeFail
    \/ PullNext
    \/ CloseEarly

(***************************************************************************)
(* postprocess.py: generate_latex_documents                                *)
(***************************************************************************)
\* line 333: the fixed task descriptors (key, title, prompt).
tasks ==
    << [key |-> "study-notes", title |-> "LaTeX - notatki", prompt |-> "STUDY_NOTES_PROMPT"],
       [key |-> "spoken-script", title |-> "LaTeX - zapis mowiony", prompt |-> "SPOKEN_STYLE_PROMPT"] >>

TaskKeys == { tasks[i].key : i \in 1..Len(tasks) }

TaskOf(key) == tasks[CHOOSE i \in 1..Len(tasks) : tasks[i].key = key]

\* line 360: ordering = {key: index for index, (key, ...) in enumerate(tasks)}
ordering(key) == CHOOSE i \in 1..Len(tasks) : tasks[i].key = key

\* Inputs of the model: transcripts, and the texts a generation call returns
\* (sequences of characters; " " is white space).
Transcripts == { "t1", "t2" }
GeneratedTexts == { <<>>, <<" ">>, <<"x">>, <<" ", "y", " ">> }

\* str.strip() on a character sequence.
RECURSIVE LStrip(_)
LStrip(s) == IF s # <<>> /\ Head(s) = " " THEN LStrip(Tail(s)) ELSE s

RECURSIVE RStrip(_)
RStrip(s) ==
    IF s # <<>> /\ s[Len(s)] = " " THEN RStrip(SubSeq(s, 1, Len(s) - 1)) ELSE s

Strip(s) == RStrip(LStrip(s))

(***************************************************************************)
(* postprocess.py: _extract_response_text                                  *)
(***************************************************************************)
\* A response of the remote call. It is a plain string (kind "str", the
\* string in value) or an object (kind "obj") with the attributes
\* output_text, text and output. An attribute output_text or text is absent
\* or None (type "none"), a string (type "str", parts = <<string>>) or a list
\* of parts (type "list"). output is a list of items, each with a list of
\* content blocks; a block has the optional strings text and value. The
\* code does not tell an absent or None output or content from an empty
\* list, and both are <<>> here.
NoField == [type |-> "none", parts |-> <<>>]

StrField(t) == [type |-> "str", parts |-> <<t>>]

ListField(parts) == [type |-> "list", parts |-> parts]

Block(text, value) == [text |-> text, value |-> value]

Item(content) == [content |-> content]

PlainResponse(t) ==
    [kind |-> "str", value |-> t, output_text |-> NoField, text |-> NoField,
     output |-> <<>>]

ObjectResponse(output_text, text, output) ==
    [kind |-> "obj", value |-> <<>>, output_text |-> output_text, text |-> text,
     output |-> output]

\* "".join(parts)
RECURSIVE Join(_)
Join(parts) == IF parts = <<>> THEN <<>> ELSE Head(parts) \o Join(Tail(parts))

\* lines 416-417: getattr(block, "text", None) or getattr(block, "value", None),
\* kept when it is truthy.
BlockText(block) ==
    IF block.text # NoneVal /\ block.text[1] # <<>> THEN block.text[1]
    ELSE IF block.value # NoneVal THEN block.value[1]
    ELSE <<>>

\* lines 414-418: the texts of the blocks of one item, in order.
RECURSIVE ContentTexts(_)
ContentTexts(content) ==
    IF content = <<>> THEN <<>>
    ELSE (IF BlockText(Head(content)) # <<>> THEN <<BlockText(Head(content))>> ELSE <<>>)
            \o ContentTexts(Tail(content))

\* lines 412-418: texts, over every item of output.
RECURSIVE OutputTexts(_)
OutputTexts(output) ==
    IF output = <<>> THEN <<>>
    ELSE ContentTexts(Head(output).content) \o OutputTexts(Tail(output))

\* line 422: str(response) of an object without any text, its repr.
StrOfResponse == <<"<", "r", ">">>

\* lines 397-422
_extract_response_text(response) ==
    IF response.kind = "str" THEN response.value
    ELSE IF response.output_text.type \in {"list", "str"}
         THEN Join(response.output_text.parts)
    ELSE IF response.text.type \in {"list", "str"}
         THEN Join(response.text.parts)
    ELSE IF OutputTexts(response.output) # <<>>
         THEN Join(OutputTexts(response.output))
    ELSE StrOfResponse

\* The responses of the model: every shape the function tells apart, with
\* texts that are empty, blank, padded or plain.
OutputWithText ==
    << Item(<<Block(Some(<<"x">>), NoneVal), Block(NoneVal, Some(<<"y">>))>>),
       Item(<<>>) >>

Responses ==
    { PlainResponse(t) : t \in GeneratedTexts }
    \cup { ObjectResponse(StrField(<<"x">>), NoField, <<>>),
           ObjectResponse(StrField(<<>>), NoField, <<>>),
           ObjectResponse(ListField(<< <<" ">>, <<"y">>, <<" ">> >>), NoField, <<>>),
           ObjectResponse(NoField, StrField(<<"x">>), <<>>),
           ObjectResponse(StrField(<<>>), StrField(<<"x">>), <<>>),
           ObjectResponse(StrField(<<>>), NoField, OutputWithText),
           ObjectResponse(ListField(<<>>), NoField, OutputWithText),
           ObjectResponse(NoField, StrField(<<>>), OutputWithText),
           ObjectResponse(NoField, NoField, OutputWithText),
           ObjectResponse(NoField, NoField,
                          << Item(<<Block(Some(<<>>), Some(<<>>))>>) >>),
           ObjectResponse(NoField, NoField, <<>>) }

\* A check that leaves out the strip().
EmptyGenerationNoStrip(text) == text = <<>>

\* line 392: not text.strip()
EmptyGeneration(text) == Strip(text) = <<>>

\* lines 370-377
GeneratedDocument(key, latex, pdf) ==
    [key |-> key, title |-> TaskOf(key).title, latex |-> latex, pdf_bytes |-> pdf,
     latex_filename |-> <<key, ".tex">>, pdf_filename |-> <<key, ".pdf">>]

\* line 361: documents.sort(key=lambda doc: ordering[doc.key]), a stable sort.
RECURSIVE InsertByOrdering(_, _)
InsertByOrdering(sorted, doc) ==
    IF sorted = <<>> THEN <<doc>>
    ELSE IF ordering(doc.key) < ordering(Head(sorted).key)
         THEN <<doc>> \o sorted
         ELSE <<Head(sorted)>> \o InsertByOrdering(Tail(sorted), doc)

RECURSIVE InsertionSort(_)
InsertionSort(docs) ==
    IF docs = <<>> THEN <<>>
    ELSE InsertByOrdering(InsertionSort(SubSeq(docs, 1, Len(docs) - 1)), docs[Len(docs)])

SortNone(docs) == docs

SortByOrdering(docs) == InsertionSort(docs)

\* line 351: errors.append((key, exc))
AppendErrorOverwriting(errs, key, msg) == << [key |-> key, message |-> msg] >>

AppendError(errs, key, msg) == Append(errs, [key |-> key, message |-> msg])

\* line 353: if errors
RaiseOnlyIfAllFailed(errs) == Len(errs) = Len(tasks)

ErrorsCollected(errs) == errs # <<>>

InitG ==
    /\ opc = "idle"
    /\ transcript = ""
    /\ tpc = [k \in TaskKeys |-> "unstarted"]
    /\ tmsg = [k \in TaskKeys |-> ""]
    /\ tresponse = [k \in TaskKeys |-> NoneVal]
    /\ tlatex = [k \in TaskKeys |-> <<>>]
    /\ tevents = [k \in TaskKeys |-> <<>>]
    /\ genCalls = [k \in TaskKeys |-> 0]
    /\ renders = [k \in TaskKeys |-> 0]
    /\ workdir = [k \in TaskKeys |-> "none"]
    /\ finishOrder = <<>>
    /\ collected = {}
    /\ documents = <<>>
    /\ errors = <<>>
    /\ result = <<>>
    /\ raised = <<>>

\* lines 338-342: every task is submitted to a pool with one worker per task.
GenerateStart(t) ==
    /\ opc = "idle"
    /\ transcript' = t
    /\ tpc' = [k \in TaskKeys |-> "call"]
    /\ opc' = "collecting"
    /\ UNCHANGED <<tmsg, tlatex, genCalls, renders, workdir, finishOrder, collected,
                   documents, errors, result, raised>>
    /\ UNCHANGED tresponse
    /\ UNCHANGED tevents
    /\ UNCHANGED tvars
    /\ UNCHANGED avars

\* The task's future completes with an exception.
TaskFails(k, msg) ==
    /\ tpc' = [tpc EXCEPT ![k] = "failed"]
    /\ tmsg' = [tmsg EXCEPT ![k] = msg]
    /\ finishOrder' = Append(finishOrder, k)

\* _call_gpt_latex: the remote call raises.
GenCallRaises(k) ==
    /\ tpc[k] = "call"
    /\ genCalls' = [genCalls EXCEPT ![k] = @ + 1]
    /\ TaskFails(k, "remote call failed")
    /\ UNCHANGED <<opc, transcript, tlatex, renders, workdir, collected, documents,
                   errors, result, raised>>
    /\ UNCHANGED tresponse
    /\ tevents' = [tevents EXCEPT ![k] = Append(@, "call raised")]
    /\ UNCHANGED tvars
    /\ UNCHANGED avars

\* _call_gpt_latex: the remote call returns text that is empty after strip().
GenCallEmpty(k, response) ==
    /\ tpc[k] = "call"
    /\ EmptyGeneration(_extract_response_text(response))
    /\ genCalls' = [genCalls EXCEPT ![k] = @ + 1]
    /\ TaskFails(k, "GPT returned an empty LaTeX document.")
    /\ UNCHANGED <<opc, transcript, renders, workdir, collected, documents,
                   errors, result, raised>>
    /\ tlatex' = [tlatex EXCEPT ![k] = _extract_response_text(response)]
    /\ tresponse' = [tresponse EXCEPT ![k] = Some(response)]
    /\ tevents' = [tevents EXCEPT ![k] = Append(@, "text empty")]
    /\ UNCHANGED tvars
    /\ UNCHANGED avars

\* _call_gpt_latex returns the text; _compile_pdf creates its directory and
\* writes document.tex.
GenCallReturns(k, response) ==
    /\ tpc[k] = "call"
    /\ ~EmptyGeneration(_extract_response_text(response))
    /\ genCalls' = [genCalls EXCEPT ![k] = @ + 1]
    /\ tlatex' = [tlatex EXCEPT ![k] = _extract_response_text(response)]
    /\ workdir' = [workdir EXCEPT ![k] = "present"]
    /\ tpc' = [tpc EXCEPT ![k] = "pass1"]
    /\ UNCHANGED <<opc, transcript, tmsg, renders, finishOrder, collected, documents,
                   errors, result, raised>>
    /\ tresponse' = [tresponse EXCEPT ![k] = Some(response)]
    /\ tevents' = [tevents EXCEPT ![k] = Append(@, "text")]
    /\ UNCHANGED tvars
    /\ UNCHANGED avars

\* A render loop of one pass.
RenderPassOkSinglePass(k) ==
    /\ tpc[k] \in {"pass1", "pass2"}
    /\ renders' = [renders EXCEPT ![k] = @ + 1]
    /\ tpc' = [tpc EXCEPT ![k] = "read"]
    /\ UNCHANGED <<opc, transcript, tmsg, tlatex, genCalls, workdir, finishOrder,
                   collected, documents, errors, result, raised>>
    /\ UNCHANGED tresponse
    /\ tevents' = [tevents EXCEPT ![k] = Append(@, "exit 0")]
    /\ UNCHANGED tvars
    /\ UNCHANGED avars

\* One pdflatex pass exits zero.
RenderPassOk(k) ==
    /\ tpc[k] \in {"pass1", "pass2"}
    /\ renders' = [renders EXCEPT ![k] = @ + 1]
    /\ tpc' = [tpc EXCEPT ![k] = IF tpc[k] = "pass1" THEN "pass2" ELSE "read"]
    /\ UNCHANGED <<opc, transcript, tmsg, tlatex, genCalls, workdir, finishOrder,
                   collected, documents, errors, result, raised>>
    /\ UNCHANGED tresponse
    /\ tevents' = [tevents EXCEPT ![k] = Append(@, "exit 0")]
    /\ UNCHANGED tvars
    /\ UNCHANGED avars

\* One pdflatex pass exits non-zero.
RenderPassFails(k) ==
    /\ tpc[k] \in {"pass1", "pass2"}
    /\ renders' = [renders EXCEPT ![k] = @ + 1]
    /\ workdir' = [workdir EXCEPT ![k] = "removed"]
    /\ TaskFails(k, "pdflatex failed")
    /\ UNCHANGED <<opc, transcript, tlatex, genCalls, collected, documents, errors,
                   result, raised>>
    /\ UNCHANGED tresponse
    /\ tevents' = [tevents EXCEPT ![k] = Append(@, "exit nonzero")]
    /\ UNCHANGED tvars
    /\ UNCHANGED avars

\* pdflatex is not on PATH: subprocess.run raises FileNotFoundError, which
\* leaves _compile_pdf; no process ran.
RenderToolMissing(k) ==
    /\ tpc[k] \in {"pass1", "pass2"}
    /\ workdir' = [workdir EXCEPT ![k] = "removed"]
    /\ TaskFails(k, "No such file or directory: 'pdflatex'")
    /\ UNCHANGED tresponse
    /\ tevents' = [tevents EXCEPT ![k] = Append(@, "tool missing")]
    /\ UNCHANGED <<opc, transcript, tlatex, genCalls, renders, collected, documents,
                   errors, result, raised>>
    /\ UNCHANGED tvars
    /\ UNCHANGED avars

\* document.pdf is read back and the task returns its GeneratedDocument.
ReadPdfOk(k) ==
    /\ tpc[k] = "read"
    /\ workdir' = [workdir EXCEPT ![k] = "removed"]
    /\ tpc' = [tpc EXCEPT ![k] = "ok"]
    /\ finishOrder' = Append(finishOrder, k)
    /\ UNCHANGED <<opc, transcript, tmsg, tlatex, genCalls, renders, collected,
                   documents, errors, result, raised>>
    /\ UNCHANGED tresponse
    /\ tevents' = [tevents EXCEPT ![k] = Append(@, "artifact read")]
    /\ UNCHANGED tvars
    /\ UNCHANGED avars

\* document.pdf does not exist.
ReadPdfMissing(k) ==
    /\ tpc[k] = "read"
    /\ workdir' = [workdir EXCEPT ![k] = "removed"]
    /\ TaskFails(k, "pdflatex did not produce a PDF file.")
    /\ UNCHANGED <<opc, transcript, tlatex, genCalls, renders, collected, documents,
                   errors, result, raised>>
    /\ UNCHANGED tresponse
    /\ tevents' = [tevents EXCEPT ![k] = Append(@, "artifact missing")]
    /\ UNCHANGED tvars
    /\ UNCHANGED avars

\* lines 346-351: as_completed hands over one completed future; its result is
\* appended to documents, or its exception to errors.
Collect(k) ==
    /\ opc = "collecting"
    /\ k \notin collected
    /\ tpc[k] \in {"ok", "failed"}
    /\ collected' = collected \cup {k}
    /\ IF tpc[k] = "ok"
       THEN /\ documents' = Append(documents,
                                   GeneratedDocument(k, tlatex[k], <<"pdf", k>>))
            /\ UNCHANGED errors
       ELSE /\ errors' = AppendError(errors, k, tmsg[k])
            /\ UNCHANGED documents
    /\ UNCHANGED <<opc, transcript, tpc, tmsg, tlatex, genCalls, renders, workdir,
                   finishOrder, result, raised>>
    /\ UNCHANGED tresponse
    /\ UNCHANGED tevents
    /\ UNCHANGED tvars
    /\ UNCHANGED avars

\* The as_completed loop ends when every future has been handed over.
LoopEndsOnFirstError == collected = TaskKeys \/ errors # <<>>

LoopEnds == collected = TaskKeys

\* lines 353-357
GenerateRaises ==
    /\ opc = "collecting"
    /\ LoopEnds
    /\ ErrorsCollected(errors)
    /\ raised' = errors
    /\ opc' = "raised"
    /\ UNCHANGED <<transcript, tpc, tmsg, tlatex, genCalls, renders, workdir,
                   finishOrder, collected, documents, errors, result>>
    /\ UNCHANGED tresponse
    /\ UNCHANGED tevents
    /\ UNCHANGED tvars
    /\ UNCHANGED avars

\* lines 359-362
GenerateReturns ==
    /\ opc = "collecting"
    /\ LoopEnds
    /\ ~ErrorsCollected(errors)
    /\ result' = SortByOrdering(documents)
    /\ opc' = "returned"
    /\ UNCHANGED <<transcript, tpc, tmsg, tlatex, genCalls, renders, workdir,
                   finishOrder, collected, documents, errors, raised>>
    /\ UNCHANGED tresponse
    /\ UNCHANGED tevents
    /\ UNCHANGED tvars
    /\ UNCHANGED avars

NextG ==
    \/ \E t \in Transcripts : GenerateStart(t)
    \/ \E k \in TaskKeys : GenCallRaises(k)
    \/ \E k \in TaskKeys, response \in Responses : GenCallEmpty(k, response)
    \/ \E k \in TaskKeys, response \in Responses : GenCallReturns(k, response)
    \/ \E k \in TaskKeys : RenderPassOk(k)
    \/ \E k \in TaskKeys : RenderPassFails(k)
    \/ \E k \in TaskKeys : RenderToolMissing(k)
    \/ \E k \in TaskKeys : ReadPdfOk(k)
    \/ \E k \in TaskKeys : ReadPdfMissing(k)
    \/ \E k \in TaskKeys : Collect(k)
    \/ GenerateRaises
    \/ GenerateReturns

(***************************************************************************)
(* app.py: session state                                                   *)
(***************************************************************************)
\* lines 30-33: the session state before the first request. A str is a
\* sequence here, "" is <<>>.
InitA ==
    /\ apc = "idle"
    /\ state = [transcript |-> <<>>, documents |-> <<>>, error |-> <<>>]
    /\ documentsFrom = <<>>
    /\ handled = "nothing"

\* No chunked_transcription generator exists.
NoRun ==
    /\ pc = "none"
    /\ filename = <<>>
    /\ sourceIsLocal = FALSE
    /\ file_size = 0
    /\ max_chunk_bytes = _MAX_CHUNK_BYTES
    /\ tmpFile = "none"
    /\ tmpCreated = 0
    /\ total_ms = 0
    /\ bit_rate = NoneVal
    /\ approx_chunk_ms = 0
    /\ start_ms = 0
    /\ chunk_index = 0
    /\ target_duration = 0
    /\ exportLog = <<>>
    /\ accepted = <<>>
    /\ yielded = <<>>
    /\ procs = 0
    /\ remoteCalls = 0
    /\ chunkFiles = 0
    /\ error = "none"
    /\ procsInFlight = 0
    /\ callsInFlight = 0
    /\ pulls = 0
    /\ probeOut = <<>>

\* The generator at position p for the uploaded file (fn, size) and the
\* default budget, with everything else as at its creation.
FreshRun(p, fn, size) ==
    /\ pc' = p
    /\ filename' = fn
    /\ sourceIsLocal' = FALSE
    /\ file_size' = size
    /\ max_chunk_bytes' = _MAX_CHUNK_BYTES
    /\ tmpFile' = "none"
    /\ tmpCreated' = 0
    /\ total_ms' = 0
    /\ bit_rate' = NoneVal
    /\ approx_chunk_ms' = 0
    /\ start_ms' = 0
    /\ chunk_index' = 0
    /\ target_duration' = 0
    /\ exportLog' = <<>>
    /\ accepted' = <<>>
    /\ yielded' = <<>>
    /\ procs' = 0
    /\ remoteCalls' = 0
    /\ chunkFiles' = 0
    /\ error' = "none"
    /\ procsInFlight' = 0
    /\ callsInFlight' = 0
    /\ pulls' = 0
    /\ probeOut' = <<>>

\* The generator is gone when the handler has left the for loop.
RunDiscarded == FreshRun("none", <<>>, 0)

\* The call of generate_latex_documents is over and its locals are gone.
GenerationDiscarded ==
    /\ opc' = "idle"
    /\ transcript' = ""
    /\ tpc' = [k \in TaskKeys |-> "unstarted"]
    /\ tmsg' = [k \in TaskKeys |-> ""]
    /\ tresponse' = [k \in TaskKeys |-> NoneVal]
    /\ tlatex' = [k \in TaskKeys |-> <<>>]
    /\ tevents' = [k \in TaskKeys |-> <<>>]
    /\ genCalls' = [k \in TaskKeys |-> 0]
    /\ renders' = [k \in TaskKeys |-> 0]
    /\ workdir' = [k \in TaskKeys |-> "none"]
    /\ finishOrder' = <<>>
    /\ collected' = {}
    /\ documents' = <<>>
    /\ errors' = <<>>
    /\ result' = <<>>
    /\ raised' = <<>>

\* A chunk text as characters: the texts of the model are one letter each.
TextChars(text) == IF text = "" THEN <<>> ELSE <<text>>

\* "\n\n".join(parts)
RECURSIVE JoinParagraphs(_)
JoinParagraphs(parts) ==
    IF parts = <<>> THEN <<>>
    ELSE IF Len(parts) = 1 THEN parts[1]
    ELSE parts[1] \o <<"LF", "LF">> \o JoinParagraphs(Tail(parts))

NonEmptyText(chunk) == chunk.text # ""

\* The texts of the chunks that have one, in the order of the list.
RECURSIVE TextsOf(_)
TextsOf(chunks) ==
    IF chunks = <<>> THEN <<>>
    ELSE <<TextChars(Head(chunks).text)>> \o TextsOf(Tail(chunks))

\* str.strip() where the whitespace is " " and the line feed.
RECURSIVE StripWhitespace(_)
StripWhitespace(s) ==
    IF s # <<>> /\ Head(s) \in {" ", "LF"} THEN StripWhitespace(Tail(s))
    ELSE IF s # <<>> /\ s[Len(s)] \in {" ", "LF"}
         THEN StripWhitespace(SubSeq(s, 1, Len(s) - 1))
    ELSE s

RECURSIVE Reverse(_)
Reverse(seq) == IF seq = <<>> THEN <<>> ELSE Append(Reverse(Tail(seq)), Head(seq))

\* A join that starts from the last chunk.
TranscriptTextLastFirst(chunk_details) ==
    StripWhitespace(JoinParagraphs(TextsOf(SelectSeq(Reverse(chunk_details), NonEmptyText))))

\* line 111: "\n\n".join(chunk.text for chunk in chunk_details if chunk.text).strip()
TranscriptText(chunk_details) ==
    StripWhitespace(JoinParagraphs(TextsOf(SelectSeq(chunk_details, NonEmptyText))))

\* lines 99-104: the exceptions the handler catches.
Caught(e) == ExceptionClass(e) \in {"UnsupportedAudioFormatError", "ValueError"}

\* lines 70-74: create_openai_client raises MissingAPIKeyError; st.error, return.
AppMissingKey ==
    /\ apc = "idle"
    /\ handled' = "missing key"
    /\ UNCHANGED <<apc, state, documentsFrom>>
    /\ UNCHANGED tvars
    /\ UNCHANGED gvars

\* lines 70-88: the client exists and the for loop creates the generator for
\* the uploaded file.
AppRequest(fn, size) ==
    /\ apc = "idle"
    /\ apc' = "transcribing"
    /\ handled' = "running"
    /\ FreshRun("created", fn, size)
    /\ UNCHANGED <<state, documentsFrom>>
    /\ UNCHANGED gvars

\* lines 99-104: the run raised an exception the handler catches.
AppCatches ==
    /\ apc = "transcribing"
    /\ pc = "failed"
    /\ Caught(error)
    /\ apc' = "idle"
    /\ handled' = "error shown"
    /\ RunDiscarded
    /\ UNCHANGED <<state, documentsFrom>>
    /\ UNCHANGED gvars

\* The run raised any other exception, which leaves the handler.
AppPropagates ==
    /\ apc = "transcribing"
    /\ pc = "failed"
    /\ ~Caught(error)
    /\ apc' = "idle"
    /\ handled' = "exception"
    /\ RunDiscarded
    /\ UNCHANGED <<state, documentsFrom>>
    /\ UNCHANGED gvars

\* lines 111-115: the loop ended and no chunk has text.
AppNoText ==
    /\ apc = "transcribing"
    /\ pc = "done"
    /\ TranscriptText(yielded) = <<>>
    /\ apc' = "idle"
    /\ handled' = "no text"
    /\ RunDiscarded
    /\ UNCHANGED <<state, documentsFrom>>
    /\ UNCHANGED gvars

\* lines 111-118: the loop ended with text, which is stored.
AppStoreTranscript ==
    /\ apc = "transcribing"
    /\ pc = "done"
    /\ TranscriptText(yielded) # <<>>
    /\ state' = [state EXCEPT !.transcript = TranscriptText(yielded), !.error = <<>>]
    /\ apc' = "generating"
    /\ RunDiscarded
    /\ UNCHANGED <<documentsFrom, handled>>
    /\ UNCHANGED gvars

\* line 122: generate_latex_documents(transcript_text, client)
AppCallsGenerate ==
    /\ apc = "generating"
    /\ GenerateStart(state.transcript)

\* A handler that stores the error and keeps the documents it has.
AppStoreErrorKeepingDocuments ==
    /\ apc = "generating"
    /\ opc = "raised"
    /\ state' = [state EXCEPT !.error = raised]
    /\ documentsFrom' = documentsFrom
    /\ apc' = "idle"
    /\ handled' = "generation failed"
    /\ GenerationDiscarded
    /\ UNCHANGED tvars

\* lines 123-127: except DocumentGenerationError
AppStoreError ==
    /\ apc = "generating"
    /\ opc = "raised"
    /\ state' = [state EXCEPT !.documents = <<>>, !.error = raised]
    /\ documentsFrom' = <<>>
    /\ apc' = "idle"
    /\ handled' = "generation failed"
    /\ GenerationDiscarded
    /\ UNCHANGED tvars

\* line 129: state["documents"] = documents
AppStoreDocuments ==
    /\ apc = "generating"
    /\ opc = "returned"
    /\ state' = [state EXCEPT !.documents = result]
    /\ documentsFrom' = transcript
    /\ apc' = "idle"
    /\ handled' = "documents"
    /\ GenerationDiscarded
    /\ UNCHANGED tvars

\* The inputs of the front end: any file name, one chunk text more than the
\* run on its own needs, to tell the chunks of a transcript apart, and the
\* plain responses.
AppTexts == {"", "u", "w"}
AppResponses == { PlainResponse(<<>>), PlainResponse(<<"x">>) }
AppProbeSources == { << >>, << Some(10000000) >> }

NextApp ==
    \/ AppMissingKey
    \/ \E fn \in Filenames, size \in FileSizes : AppRequest(fn, size)
    \/ StartUnsupported
    \/ StartPrepare
    \/ \E e \in ProbeFailures : ProbeFail(e)
    \/ \E sources \in AppProbeSources : ProbeNoDuration(sources)
    \/ \E sources \in AppProbeSources,
          br \in ProbeBitRatesFor(_MAX_CHUNK_BYTES) : ProbeOk(sources, br)
    \/ \E e \in {"ExportToolMissing", "ExportToolFailed"} : ExportFail(e)
    \/ \E size \in ExportSizes : ExportAccept(size)
    \/ \E size \in ExportSizes : ExportTooLarge(size)
    \/ \E size \in ExportSizes : ExportShrink(size)
    \/ \E text \in AppTexts : TranscribeOk(text)
    \/ TranscribeFail
    \/ PullNext
    \/ AppCatches
    \/ AppPropagates
    \/ AppNoText
    \/ AppStoreTranscript
    \/ AppCallsGenerate
    \/ \E k \in TaskKeys : GenCallRaises(k)
    \/ \E k \in TaskKeys, response \in AppResponses : GenCallEmpty(k, response)
    \/ \E k \in TaskKeys, response \in AppResponses : GenCallReturns(k, response)
    \/ \E k \in TaskKeys : RenderPassOk(k)
    \/ \E k \in TaskKeys : RenderPassFails(k)
    \/ \E k \in TaskKeys : RenderToolMissing(k)
    \/ \E k \in TaskKeys : ReadPdfOk(k)
    \/ \E k \in TaskKeys : ReadPdfMissing(k)
    \/ \E k \in TaskKeys : Collect(k)
    \/ GenerateRaises
    \/ GenerateReturns
    \/ AppStoreError
    \/ AppStoreDocuments

(***************************************************************************)
(* Specifications                                                          *)
(***************************************************************************)
\* One transcription run, for every input of the model.
InitTranscription == InitT /\ InitG /\ InitA

SpecT == InitTranscription /\ [][NextT]_vars

\* The same run when every external process and every remote call returns
\* and the consumer goes on asking for elements (or closes the generator):
\* a step that stays possible is eventually taken.
SpecTFair == InitTranscription /\ [][NextT]_vars /\ WF_vars(NextT)

\* One call of generate_latex_documents; no transcription run is in progress.
InitTOne ==
    /\ InitT
    /\ filename = <<"a",".","M","P","3">>
    /\ sourceIsLocal = FALSE
    /\ file_size = 1000
    /\ max_chunk_bytes = 3000

InitGeneration == InitTOne /\ InitG /\ InitA

SpecG == InitGeneration /\ [][NextG]_vars

\* The front end from the start of a session: any number of requests, one
\* after the other.
InitApp == NoRun /\ InitG /\ InitA

SpecApp == InitApp /\ [][NextApp]_vars

\* _estimate_chunk_duration on its own: every combination of these inputs.
PlanDurations == {0, 1, 5500, 10000}
PlanBitRates == {NoneVal, Some(4000), Some(8002), Some(16000), Some(128000)}
PlanFileSizes == {0, 1000, 5501, 44000}
PlanBudgets == {0, 3000, 8002, 11002, 22000, _MAX_CHUNK_BYTES}

InitPlanner ==
    /\ pc = "plan"
    /\ total_ms \in PlanDurations
    /\ bit_rate \in PlanBitRates
    /\ file_size \in PlanFileSizes
    /\ max_chunk_bytes \in PlanBudgets
    /\ filename = <<"a",".","M","P","3">>
    /\ sourceIsLocal = FALSE
    /\ tmpFile = "none"
    /\ tmpCreated = 0
    /\ approx_chunk_ms = 0
    /\ start_ms = 0
    /\ chunk_index = 0
    /\ target_duration = 0
    /\ exportLog = <<>>
    /\ accepted = <<>>
    /\ yielded = <<>>
    /\ procs = 0
    /\ remoteCalls = 0
    /\ chunkFiles = 0
    /\ error = "none"
    /\ procsInFlight = 0
    /\ callsInFlight = 0
    /\ pulls = 0
    /\ probeOut = <<>>
    /\ InitG
    /\ InitA

\* lines 99-104: the call of the planner.
Plan ==
    /\ pc = "plan"
    /\ approx_chunk_ms' =
          _estimate_chunk_duration(total_ms, bit_rate, file_size, max_chunk_bytes)
    /\ pc' = "planned"
    /\ UNCHANGED <<filename, sourceIsLocal, file_size, max_chunk_bytes, tmpFile,
                   tmpCreated, total_ms, bit_rate, start_ms, chunk_index,
                   target_duration, exportLog, accepted, yielded, procs, remoteCalls,
                   chunkFiles, error, procsInFlight, callsInFlight, pulls, probeOut>>
    /\ UNCHANGED gvars
    /\ UNCHANGED avars

NextPlanner == Plan

SpecPlanner == InitPlanner /\ [][NextPlanner]_vars

(***************************************************************************)
(* Properties of the transcription run (checked under SpecT)               *)
(***************************************************************************)
Last(seq) == seq[Len(seq)]

OverBudgetExports == { i \in 1..Len(exportLog) : exportLog[i].size > max_chunk_bytes }

\* C1: the segments accepted so far start at 0 and are contiguous (each end_ms
\* is the next start_ms), and when the run has terminated normally the last
\* accepted segment ends at the probed total duration.
C1_ContiguousCover ==
    /\ accepted # <<>> => accepted[1].start_ms = 0
    /\ \A i \in 1..(Len(accepted) - 1) : accepted[i].end_ms = accepted[i + 1].start_ms
    /\ \A i \in 1..Len(accepted) : accepted[i].start_ms < accepted[i].end_ms
    /\ pc = "done" => accepted # <<>> /\ Last(accepted).end_ms = total_ms

\* A run that ended normally with three or more segments, one of them after a shrink.
C1_Witness ==
    /\ pc = "done"
    /\ Len(accepted) >= 3
    /\ OverBudgetExports # {}

\* C2: every accepted segment measured at most the byte budget, an over-budget
\* export is never the segment that was accepted, and the remote call is made
\* only for accepted segments.
C2_AcceptedWithinBudget ==
    /\ \A i \in 1..Len(accepted) : accepted[i].size <= max_chunk_bytes
    /\ \A i \in OverBudgetExports : \A j \in 1..Len(accepted) :
          ~ ( /\ accepted[j].start_ms = exportLog[i].start_ms
              /\ accepted[j].end_ms = exportLog[i].start_ms + exportLog[i].duration_ms )
    /\ remoteCalls <= Len(accepted)
    /\ Len(yielded) <= remoteCalls
    /\ pc = "transcribe" => accepted # <<>> /\ Last(accepted).size <= max_chunk_bytes

\* A segment of exactly the budget was accepted and transcribed after an
\* over-budget export of the same segment.
C2_Witness ==
    /\ remoteCalls >= 1
    /\ accepted # <<>>
    /\ accepted[1].size = max_chunk_bytes
    /\ \E i \in OverBudgetExports : exportLog[i].chunk_index = 0

\* C3: an over-budget export whose duration is at or below the minimum chunk
\* duration is the last export of the run; the run has failed with
\* ChunkTooLarge, that segment was not accepted, and no further process was
\* spawned, remote call made or element yielded.
C3_ChunkTooLargeIsFinal ==
    \A i \in OverBudgetExports :
        exportLog[i].duration_ms <= _MIN_CHUNK_MS =>
            /\ i = Len(exportLog)
            /\ pc = "failed"
            /\ ErrorKind(error) = "ChunkTooLarge"
            /\ Len(accepted) = exportLog[i].chunk_index
            /\ remoteCalls = exportLog[i].remoteCalls
            /\ Len(yielded) = exportLog[i].chunk_index
            /\ procs = Len(exportLog) + 1

\* The run failed at exactly the minimum duration, after a shrink, with
\* segments already yielded.
C3_Witness ==
    /\ error = "ChunkTooLarge"
    /\ Last(exportLog).duration_ms = _MIN_CHUNK_MS
    /\ Len(exportLog) >= 2
    /\ exportLog[Len(exportLog) - 1].size > max_chunk_bytes
    /\ yielded # <<>>

\* C4: an over-budget export is followed by an export of the same segment:
\* same start_ms, same index, no remote call in between; and while the retry
\* is pending the cursor and the index are those of the over-budget export.
C4_ShrinkKeepsCursor ==
    /\ \A i \in OverBudgetExports :
          i < Len(exportLog) =>
              /\ exportLog[i + 1].start_ms = exportLog[i].start_ms
              /\ exportLog[i + 1].chunk_index = exportLog[i].chunk_index
              /\ exportLog[i + 1].remoteCalls = exportLog[i].remoteCalls
    /\ (exportLog # <<>> /\ Last(exportLog).size > max_chunk_bytes) =>
          /\ start_ms = Last(exportLog).start_ms
          /\ chunk_index = Last(exportLog).chunk_index
          /\ remoteCalls = Last(exportLog).remoteCalls
          /\ Len(accepted) = Last(exportLog).chunk_index

\* Two consecutive shrinks of a segment that is not the first one.
C4_Witness ==
    \E i \in OverBudgetExports :
        /\ i + 2 <= Len(exportLog)
        /\ exportLog[i + 1].size > max_chunk_bytes
        /\ exportLog[i].start_ms > 0
        /\ exportLog[i + 2].duration_ms < exportLog[i + 1].duration_ms

\* C5: every yielded ChunkTranscript has end_ms <= total_ms, so its progress is
\* end_ms / total_ms unclamped; after normal termination the last one has
\* end_ms = total_ms and progress exactly 1.
C5_ProgressReachesOne ==
    /\ \A i \in 1..Len(yielded) :
          /\ yielded[i].total_ms = total_ms
          /\ yielded[i].end_ms <= yielded[i].total_ms
          /\ yielded[i].end_ms < yielded[i].total_ms =>
                progress(yielded[i]) = <<yielded[i].end_ms, yielded[i].total_ms>>
    /\ pc = "done" =>
          /\ yielded # <<>>
          /\ Last(yielded).end_ms = total_ms
          /\ progress(Last(yielded)) = <<1, 1>>

\* A normal end after two or more elements, the first with progress below 1.
C5_Witness ==
    /\ pc = "done"
    /\ Len(yielded) >= 2
    /\ progress(yielded[1]) # <<1, 1>>

\* The extension of a file name as the claim reads it: the characters after
\* the last dot, none when the name has no dot or only a leading one.
ExtensionOf(name) ==
    IF \E i \in 2..(Len(name) - 1) : name[i] = "."
    THEN LET i == CHOOSE i \in 2..(Len(name) - 1) :
                     name[i] = "." /\ \A j \in (i + 1)..Len(name) : name[j] # "."
         IN  SubSeq(name, i + 1, Len(name))
    ELSE <<>>

SameLetter(a, b) ==
    IF a = b THEN TRUE
    ELSE \E i \in 1..Len(UpperChars) :
            IF a = UpperChars[i] THEN b = LowerChars[i]
            ELSE a = LowerChars[i] /\ b = UpperChars[i]

EqualsIgnoringCase(s, t) ==
    IF Len(s) # Len(t) THEN FALSE
    ELSE \A i \in 1..Len(s) : SameLetter(s[i], t[i])

ExtensionListed(name) ==
    LET ext == ExtensionOf(name)
    IN  \E e \in _SUPPORTED_EXTENSIONS : EqualsIgnoringCase(ext, e)

\* C6: a file name whose extension is not listed fails the run with
\* UnsupportedAudioFormat at its first step, with no temporary file, no
\* external process and no remote call; a file name whose extension is listed
\* in any letter case does not fail that way.
C6_UnsupportedFormatFirst ==
    IF pc = "created" THEN error = "none"
    ELSE IF ExtensionListed(filename)
         THEN /\ ErrorKind(error) # "UnsupportedAudioFormat"
              /\ pc = "failed" => procs >= 1
         ELSE /\ pc = "failed"
              /\ ErrorKind(error) = "UnsupportedAudioFormat"
              /\ tmpFile = "none" /\ tmpCreated = 0
              /\ procs = 0 /\ chunkFiles = 0 /\ remoteCalls = 0
              /\ exportLog = <<>> /\ accepted = <<>> /\ yielded = <<>>

\* lecture.flac was rejected.
C6_Witness ==
    /\ filename = <<"l",".","f","l","a","c">>
    /\ pc = "failed"
    /\ error = "UnsupportedFormat"

\* An upper-case supported extension got as far as a remote call.
C6_WitnessUpperCase ==
    /\ filename = <<"a",".","M","P","3">>
    /\ remoteCalls >= 1

(***************************************************************************)
(* Properties of generate_latex_documents (checked under SpecG)            *)
(***************************************************************************)
FailedTasks == { k \in TaskKeys : tpc[k] = "failed" }

SucceededTasks == { k \in TaskKeys : tpc[k] = "ok" }

GenerateEnded == opc \in {"returned", "raised"}

KeysOf(seq) == [i \in 1..Len(seq) |-> seq[i].key]

\* One step of task k, whatever it is.
TaskStep(k) ==
    \/ GenCallRaises(k)
    \/ \E response \in Responses : GenCallEmpty(k, response)
    \/ \E response \in Responses : GenCallReturns(k, response)
    \/ RenderPassOk(k)
    \/ RenderPassFails(k)
    \/ RenderToolMissing(k)
    \/ ReadPdfOk(k)
    \/ ReadPdfMissing(k)

\* C7: the call returns only when every task succeeded, and then one document
\* per task descriptor; when a task failed it raises the aggregate error and
\* returns nothing, the successful tasks' documents included.
C7_AllOrNothing ==
    /\ opc = "returned" =>
          /\ FailedTasks = {}
          /\ Len(result) = Len(tasks)
          /\ { result[i].key : i \in 1..Len(result) } = TaskKeys
          /\ \A i \in 1..Len(result) :
                result[i] = GeneratedDocument(result[i].key, tlatex[result[i].key],
                                              <<"pdf", result[i].key>>)
          /\ raised = <<>>
    /\ opc = "raised" => FailedTasks # {} /\ raised # <<>> /\ result = <<>>
    /\ GenerateEnded => (opc = "returned" <=> SucceededTasks = TaskKeys)
    /\ result # <<>> => Len(result) = Len(tasks)

\* The call raised although one task had succeeded and its document had been collected.
C7_Witness ==
    /\ opc = "raised"
    /\ SucceededTasks # {}
    /\ documents # <<>>

\* C8: the returned list is in descriptor order, study-notes then
\* spoken-script, whatever the completion and collection order.
C8_DescriptorOrder ==
    opc = "returned" => KeysOf(result) = <<"study-notes", "spoken-script">>

\* Returned after spoken-script completed, and was collected, first.
C8_Witness ==
    /\ opc = "returned"
    /\ finishOrder = <<"spoken-script", "study-notes">>
    /\ KeysOf(documents) = <<"spoken-script", "study-notes">>

\* C9: the aggregate error lists exactly the failed tasks, each once, with the
\* message of its own failure.
C9_AggregateNamesFailures ==
    opc = "raised" =>
        /\ { raised[i].key : i \in 1..Len(raised) } = FailedTasks
        /\ Len(raised) = Cardinality(FailedTasks)
        /\ \A i \in 1..Len(raised) : raised[i].message = tmsg[raised[i].key]

\* Both tasks failed, for different reasons.
C9_Witness ==
    /\ opc = "raised"
    /\ FailedTasks = TaskKeys
    /\ tmsg["study-notes"] # tmsg["spoken-script"]

\* C10: the call ends only after every task has completed or failed; a task
\* that is still running can always take its next step, whatever its sibling
\* did; and a task that succeeded made its remote call and ran both passes.
C10_WaitsForAll ==
    /\ GenerateEnded => \A k \in TaskKeys : tpc[k] \in {"ok", "failed"}
    /\ \A k \in TaskKeys :
          /\ tpc[k] \in {"call", "pass1", "pass2", "read"} => ENABLED TaskStep(k)
          /\ tpc[k] = "ok" => genCalls[k] = 1 /\ renders[k] = 2

\* The call raised; the task that failed did so before its sibling, which
\* went on to succeed with both passes.
C10_Witness ==
    /\ opc = "raised"
    /\ Len(finishOrder) = 2
    /\ tpc[finishOrder[1]] = "failed"
    /\ tpc[finishOrder[2]] = "ok"
    /\ renders[finishOrder[2]] = 2

(***************************************************************************)
(* Further properties of the transcription run (checked under SpecT)       *)
(***************************************************************************)
\* C11: segments are handled strictly one after another.  An export of
\* segment n is requested only when the remote calls of segments 0..n-1 have
\* returned and their n ChunkTranscripts have been yielded; the elements
\* yielded carry the indexes 0, 1, 2, ... in that order; and at no time is
\* more than one external process or more than one remote call running, nor
\* a process together with a call.
C11_OneSegmentAtATime ==
    /\ procsInFlight \in 0..1
    /\ callsInFlight \in 0..1
    /\ procsInFlight + callsInFlight <= 1
    /\ procsInFlight = 1 <=> pc \in {"probe", "export"}
    /\ callsInFlight = 1 <=> pc = "transcribe"
    /\ \A i \in 1..Len(yielded) : yielded[i].chunk_index = i - 1
    /\ \A i \in 1..Len(exportLog) :
          /\ exportLog[i].remoteCalls = exportLog[i].chunk_index
          /\ exportLog[i].yielded = exportLog[i].chunk_index
    /\ pc = "export" => remoteCalls = chunk_index /\ Len(yielded) = chunk_index
    /\ pc = "transcribe" => remoteCalls = chunk_index /\ Len(accepted) = chunk_index + 1

\* The third segment is being exported, after a shrink retry of the second.
C11_Witness ==
    /\ pc = "export"
    /\ chunk_index = 2
    /\ Len(yielded) = 2
    /\ \E i \in OverBudgetExports : exportLog[i].chunk_index = 1

\* The failed step of a failed run was taken once: the processes that returned
\* and the remote calls that returned are those of the exports logged and the
\* elements yielded, plus the one that failed.
FailedStepTakenOnce ==
    CASE ErrorKind(error) = "UnsupportedAudioFormat" -> procs = 0 /\ remoteCalls = 0
      [] ErrorKind(error) = "MetadataUnavailable" ->
            procs = 1 /\ exportLog = <<>> /\ remoteCalls = 0
      [] ErrorKind(error) = "ExportFailed" ->
            procs = Len(exportLog) + 2 /\ remoteCalls = Len(yielded)
      [] ErrorKind(error) = "ChunkTooLarge" ->
            procs = Len(exportLog) + 1 /\ remoteCalls = Len(yielded)
      [] ErrorKind(error) = "RemoteCallFailed" ->
            procs = Len(exportLog) + 1 /\ remoteCalls = Len(yielded) + 1
      [] OTHER -> FALSE

\* C12: the first failure of any stage ends the run.  Once a failure is
\* recorded the generator is in its failed state with nothing running, the
\* step that failed was taken exactly once, and no later step yields an
\* element, runs an external process or makes a remote call.
C12_FailureIsFinal ==
    /\ [](error # "none" =>
            /\ pc = "failed"
            /\ procsInFlight = 0 /\ callsInFlight = 0
            /\ FailedStepTakenOnce)
    /\ [][error # "none" =>
            /\ error' = error /\ pc' = pc
            /\ yielded' = yielded /\ exportLog' = exportLog
            /\ procs' = procs /\ remoteCalls' = remoteCalls
            /\ procsInFlight' = procsInFlight /\ callsInFlight' = callsInFlight]_vars

\* The remote call of the second segment failed after the first was yielded.
C12_Witness ==
    /\ pc = "failed"
    /\ error = "RemoteCallFailed"
    /\ Len(yielded) = 1
    /\ remoteCalls = 2

\* The probe has returned one of the outcomes the claim lists: the tool is
\* missing, it exited non-zero, or its output holds no duration or one <= 0.
ProbeListedFailure ==
    /\ probeOut # <<>>
    /\ IF probeOut[1].outcome = "parsed"
       THEN IF probeOut[1].duration = NoneVal THEN TRUE
            ELSE probeOut[1].duration[1] <= 0
       ELSE probeOut[1].outcome \in {"ProbeToolMissing", "ProbeToolFailed"}

NothingAfterProbe ==
    /\ exportLog = <<>> /\ accepted = <<>> /\ yielded = <<>>
    /\ procs = 1 /\ remoteCalls = 0 /\ chunkFiles = 0
    /\ procsInFlight = 0 /\ callsInFlight = 0

\* C13: when the probe tool is missing or exits non-zero, or the duration it
\* reports is absent or <= 0, the run has failed with MetadataUnavailable and
\* nothing was exported, transcribed or yielded; and every run that is past
\* the probe has a duration_ms >= 1, taken from a reported duration > 0.
C13_ProbeFailsBeforeSegments ==
    /\ ProbeListedFailure =>
          /\ pc = "failed"
          /\ ErrorKind(error) = "MetadataUnavailable"
          /\ NothingAfterProbe
    /\ (probeOut # <<>> /\ ErrorKind(error) # "MetadataUnavailable") =>
          /\ total_ms >= 1
          /\ probeOut[1].outcome = "parsed"
          /\ probeOut[1].duration # NoneVal
          /\ probeOut[1].duration[1] > 0
    /\ (exportLog # <<>> \/ procs >= 2 \/ remoteCalls >= 1 \/ yielded # <<>>
          \/ pc \in {"export", "transcribe", "yielded", "done", "closed"}) =>
          /\ total_ms >= 1
          /\ ~ProbeListedFailure

\* The container reported a negative duration and the run failed at the probe.
C13_Witness ==
    /\ probeOut = Some([outcome |-> "parsed", duration |-> Some(-1000000)])
    /\ pc = "failed"
    /\ error = "NoDuration"

Terminated == pc \in {"done", "failed", "closed"}

\* C14: a run creates at most one temporary copy; a local source is used in
\* place, with no copy created and nothing removed; a copy that was created
\* exists while the run works on it and has been removed in every terminal
\* state: normal end, failure of the probe, of an export, ChunkTooLarge,
\* failure of the remote call, and a generator closed by its consumer.
C14_TempCopyRemoved ==
    /\ tmpCreated <= 1
    /\ tmpFile = "none" <=> tmpCreated = 0
    /\ sourceIsLocal => tmpFile = "none"
    /\ (~sourceIsLocal /\ pc \in {"probe", "export", "transcribe", "yielded"}) =>
          tmpFile = "present"
    /\ Terminated => tmpFile # "present"
    /\ (Terminated /\ ~sourceIsLocal /\ ErrorKind(error) # "UnsupportedAudioFormat") =>
          tmpFile = "removed"

\* An uploaded file whose remote call failed after a shrink: the copy is gone.
C14_Witness ==
    /\ ~sourceIsLocal
    /\ error = "RemoteCallFailed"
    /\ OverBudgetExports # {}
    /\ tmpFile = "removed"
    /\ tmpCreated = 1

(***************************************************************************)
(* Termination (checked under SpecTFair)                                   *)
(***************************************************************************)
\* The exports of one segment have strictly decreasing durations, and only
\* the first may be shorter than the minimum chunk duration.
ShrinkChainsDecrease ==
    \A i \in 1..(Len(exportLog) - 1) :
        exportLog[i + 1].chunk_index = exportLog[i].chunk_index =>
            /\ exportLog[i + 1].duration_ms < exportLog[i].duration_ms
            /\ exportLog[i + 1].duration_ms >= _MIN_CHUNK_MS

\* C15: when external processes and remote calls return and the consumer
\* keeps pulling, every run terminates; it has yielded finitely many
\* elements (at most one per millisecond of audio); each pull after an
\* accepted segment moves the cursor forward; and each shrink lowers the
\* target strictly without going below the minimum, so the exports of a
\* segment form a strictly decreasing chain that ends in acceptance or in
\* ChunkTooLarge.
C15_Terminates ==
    /\ <>Terminated
    /\ [](Len(yielded) <= total_ms /\ ShrinkChainsDecrease)
    /\ [][(pc = "yielded" /\ pc' \in {"export", "done"}) => start_ms' > start_ms]_vars
    /\ [][(pc = "export" /\ pc' = "export" /\ chunk_index' = chunk_index) =>
            /\ target_duration' < target_duration
            /\ target_duration' >= _MIN_CHUNK_MS]_vars

\* A normal end after three elements and two shrinks in a row.
C15_Witness ==
    /\ pc = "done"
    /\ Len(yielded) = 3
    /\ \E i \in OverBudgetExports : i + 1 \in OverBudgetExports

(***************************************************************************)
(* Further properties of the transcription run (checked under SpecT)       *)
(***************************************************************************)
\* The work done so far: processes that returned or are running, remote calls
\* that returned or are running.
ProcessesStarted == procs + procsInFlight

CallsStarted == remoteCalls + callsInFlight

\* C16: the run is driven by the consumer's requests.  Before the first
\* request nothing has been done.  The work for segment n (its exports, its
\* remote call) is started only once n + 1 elements have been requested.
\* While the generator is suspended after k elements, or was closed there,
\* nothing is running, k elements were requested, and the exports and remote
\* calls made are those of the segments 0..k-1 and no others; a closed
\* generator takes no further step.
C16_PullDriven ==
    /\ [](pulls = 0 =>
            /\ pc = "created"
            /\ ProcessesStarted = 0 /\ CallsStarted = 0
            /\ tmpCreated = 0 /\ exportLog = <<>> /\ yielded = <<>>)
    /\ [](/\ Len(yielded) <= pulls
          /\ CallsStarted <= pulls
          /\ \A i \in 1..Len(exportLog) : exportLog[i].chunk_index < pulls
          /\ pc = "export" => chunk_index < pulls)
    /\ [](pc \in {"yielded", "closed"} =>
            /\ procsInFlight = 0 /\ callsInFlight = 0
            /\ pulls = Len(yielded)
            /\ remoteCalls = Len(yielded)
            /\ procs = Len(exportLog) + 1
            /\ \A i \in 1..Len(exportLog) : exportLog[i].chunk_index < Len(yielded))
    /\ [][pc = "closed" => UNCHANGED tvars]_vars
    /\ [][pc = "yielded" => pulls' = pulls + 1 \/ pc' = "closed"]_vars

\* The consumer closed the generator after one element of a longer source:
\* only segment 0 was ever exported and transcribed.
C16_Witness ==
    /\ pc = "closed"
    /\ Len(yielded) = 1
    /\ yielded[1].end_ms < total_ms
    /\ OverBudgetExports # {}
    /\ remoteCalls = 1

\* The planner's estimate covers the whole source and the first export,
\* whatever it requested, measured no more than the budget.
WholeSourceFits ==
    /\ exportLog # <<>>
    /\ approx_chunk_ms >= total_ms
    /\ exportLog[1].size <= max_chunk_bytes

\* C17: when the estimate is at least the total duration and the export of
\* the whole duration fits the budget, that export is the only one: it
\* requested [0, total_ms), it was accepted as segment 0, and the run yields
\* one element with index 0, span [0, total_ms) and progress 1 and then ends
\* normally, after two processes (probe, export) and one remote call.  A
\* 10000 ms source of 128000 bit/s under the default budget of 24 MiB has
\* the estimate 1572864 ms >= 10000 ms and is such a run when its export fits.
C17_SingleSegment ==
    /\ WholeSourceFits =>
          /\ exportLog[1].start_ms = 0
          /\ exportLog[1].duration_ms = total_ms
          /\ Len(exportLog) = 1
          /\ accepted = << [chunk_index |-> 0, start_ms |-> 0, end_ms |-> total_ms,
                            size |-> exportLog[1].size] >>
          /\ Len(yielded) <= 1
          /\ \A i \in 1..Len(yielded) :
                /\ yielded[i].chunk_index = 0
                /\ yielded[i].start_ms = 0
                /\ yielded[i].end_ms = total_ms
                /\ progress(yielded[i]) = <<1, 1>>
          /\ pc \in {"transcribe", "yielded", "done", "closed", "failed"}
          /\ pc = "failed" => error = "RemoteCallFailed"
          /\ pc = "done" => Len(yielded) = 1 /\ procs = 2 /\ remoteCalls = 1
    /\ (max_chunk_bytes = _MAX_CHUNK_BYTES /\ pc \in {"export", "transcribe", "yielded", "done"}) =>
          /\ total_ms = 10000
          /\ bit_rate = Some(128000)
          /\ approx_chunk_ms = 1572864
          /\ exportLog # <<>> => exportLog[1].duration_ms = 10000

\* The 10 s, 128 kbit/s source under the default budget ended normally with
\* its single element.
C17_Witness ==
    /\ max_chunk_bytes = _MAX_CHUNK_BYTES
    /\ total_ms = 10000
    /\ bit_rate = Some(128000)
    /\ pc = "done"
    /\ Len(exportLog) = 1
    /\ Len(yielded) = 1
    /\ yielded[1].end_ms = 10000

\* The first export of each segment, and the export that follows an
\* over-budget one, measured against a shrink function Scale.
FirstExportsOfSegments ==
    { i \in 1..Len(exportLog) :
        IF i = 1 THEN TRUE ELSE exportLog[i - 1].chunk_index # exportLog[i].chunk_index }

ShrinkAndReset(Scale(_)) ==
    /\ \A i \in OverBudgetExports :
          (exportLog[i].duration_ms > _MIN_CHUNK_MS /\ i < Len(exportLog)) =>
              /\ exportLog[i + 1].chunk_index = exportLog[i].chunk_index
              /\ exportLog[i + 1].duration_ms =
                    Max(_MIN_CHUNK_MS, Scale(exportLog[i].duration_ms))
              /\ exportLog[i + 1].duration_ms >= _MIN_CHUNK_MS
              /\ exportLog[i + 1].duration_ms < exportLog[i].duration_ms
    /\ \A i \in FirstExportsOfSegments :
          exportLog[i].duration_ms = Min(approx_chunk_ms, total_ms - exportLog[i].start_ms)

\* floor(0.7 * t), in exact arithmetic.
Floor70Percent(t) == (7 * t) \div 10

\* C18: after an over-budget export with a target above the minimum, the next
\* export of the same segment requests max(min_chunk_ms, floor(0.7 * target)),
\* which is at least the minimum and below the target; and the first export
\* of every segment requests min(estimate, remaining), whatever the previous
\* segment was shrunk to.
C18_ShrinkIsFloorOf70Percent == ShrinkAndReset(Floor70Percent)

\* The same statement with the product as the code computes it,
\* int(target * 0.7) in double precision.
ShrinkAndResetAsComputed == ShrinkAndReset(IntTimes07)

\* An export of 11000 ms was over budget and the next one requested 7699 ms.
C18_Witness ==
    \E i \in OverBudgetExports :
        /\ i < Len(exportLog)
        /\ exportLog[i].duration_ms = 11000
        /\ exportLog[i + 1].duration_ms = 7699

(***************************************************************************)
(* The planner (checked under SpecPlanner)                                 *)
(***************************************************************************)
\* The estimate as the claim defines it, in exact arithmetic:
\* max(min_chunk_ms, floor(budget / bytes_per_ms)) with bytes_per_ms
\* max(bit_rate / 8000, 1) when the bit rate is known, max(file_size /
\* duration_ms, 1) when it is not and duration_ms > 0, and the budget itself
\* otherwise.
ClaimedEstimate(duration_ms, bitRate, fileSize, budget) ==
    LET quotient ==
            IF bitRate # NoneVal
            THEN IF bitRate[1] <= 8000 THEN budget
                 ELSE MulDivFloor(budget, 8000, bitRate[1])
            ELSE IF duration_ms > 0
                 THEN IF fileSize <= duration_ms THEN budget
                      ELSE MulDivFloor(budget, duration_ms, fileSize)
                 ELSE budget
    IN  Max(_MIN_CHUNK_MS, quotient)

\* C19: the planner returns max(min_chunk_ms, floor(budget / bytes_per_ms))
\* for the bytes_per_ms of the three cases above, and its result is at least
\* min_chunk_ms and at most max(min_chunk_ms, budget).
C19_PlannerFormula ==
    pc = "planned" =>
        /\ approx_chunk_ms = ClaimedEstimate(total_ms, bit_rate, file_size, max_chunk_bytes)
        /\ approx_chunk_ms >= _MIN_CHUNK_MS
        /\ approx_chunk_ms <= Max(_MIN_CHUNK_MS, max_chunk_bytes)

\* What holds of the planner as computed: the two bounds, and a result equal
\* to the claimed one or one millisecond below it.
PlannerAsComputed ==
    pc = "planned" =>
        /\ approx_chunk_ms >= _MIN_CHUNK_MS
        /\ approx_chunk_ms <= Max(_MIN_CHUNK_MS, max_chunk_bytes)
        /\ approx_chunk_ms \in
              { ClaimedEstimate(total_ms, bit_rate, file_size, max_chunk_bytes) - 1,
                ClaimedEstimate(total_ms, bit_rate, file_size, max_chunk_bytes) }

\* Bit rate 8002 under a budget of 8002 bytes: 8002 / 1.00025 is 8000, the
\* planner returned 7999.
C19_Witness ==
    /\ pc = "planned"
    /\ bit_rate = Some(8002)
    /\ max_chunk_bytes = 8002
    /\ approx_chunk_ms = 7999

(***************************************************************************)
(* Further properties of the transcription run (checked under SpecT)       *)
(***************************************************************************)
\* C20: every accepted segment lies inside the source, 0 <= start_ms <
\* end_ms <= duration_ms; every export, accepted or not, and the export that
\* is running request a span that ends at or before duration_ms; and the
\* index of an accepted segment is the number of segments accepted before
\* it, however many exports the shrink loop needed.
C20_SegmentBounds ==
    /\ \A i \in 1..Len(accepted) :
          /\ 0 <= accepted[i].start_ms
          /\ accepted[i].start_ms < accepted[i].end_ms
          /\ accepted[i].end_ms <= total_ms
          /\ accepted[i].chunk_index = i - 1
    /\ \A i \in 1..Len(exportLog) :
          /\ exportLog[i].start_ms >= 0
          /\ exportLog[i].duration_ms >= 1
          /\ exportLog[i].start_ms + exportLog[i].duration_ms <= total_ms
          /\ exportLog[i].chunk_index =
                Cardinality({ j \in 1..(i - 1) : exportLog[j].size <= max_chunk_bytes })
    /\ pc = "export" =>
          /\ target_duration >= 1
          /\ start_ms + target_duration <= total_ms
          /\ chunk_index = Len(accepted)

\* The third segment was accepted with index 2 after five exports, two of
\* them over budget.
C20_Witness ==
    /\ Len(accepted) = 3
    /\ accepted[3].chunk_index = 2
    /\ Len(exportLog) = 5

(***************************************************************************)
(* One generation task, step by step                                       *)
(***************************************************************************)
\* Everything a task can observe from its start to its end.
TaskRuns ==
    { <<"call raised">>,
      <<"text empty">>,
      <<"text", "tool missing">>,
      <<"text", "exit nonzero">>,
      <<"text", "exit 0", "tool missing">>,
      <<"text", "exit 0", "exit nonzero">>,
      <<"text", "exit 0", "exit 0", "artifact missing">>,
      <<"text", "exit 0", "exit 0", "artifact read">> }

IsPrefix(p, s) == Len(p) <= Len(s) /\ SubSeq(s, 1, Len(p)) = p

CountOf(seq, what) == Cardinality({ i \in 1..Len(seq) : seq[i] \in what })

TaskEnded(k) == tpc[k] \in {"ok", "failed"}

\* C21: the steps of one generation task occur in a fixed order without
\* repetition: one remote generation call; then, only if its text is not
\* empty after trimming, the first render pass; then, only if that pass
\* exited zero, the second pass in the same working directory; then the
\* read of the artifact. The rendering tool has run exactly twice in a task
\* that succeeded, never in a task whose generation was empty, and exactly
\* once in a task whose first pass exited non-zero.
C21_StepOrder ==
    \A k \in TaskKeys :
        /\ \E run \in TaskRuns : IsPrefix(tevents[k], run)
        /\ TaskEnded(k) => tevents[k] \in TaskRuns
        /\ genCalls[k] = CountOf(tevents[k], {"call raised", "text empty", "text"})
        /\ genCalls[k] <= 1
        /\ renders[k] = CountOf(tevents[k], {"exit 0", "exit nonzero"})
        /\ renders[k] >= 1 => Strip(tlatex[k]) # <<>>
        /\ tpc[k] = "ok" => genCalls[k] = 1 /\ renders[k] = 2
        /\ tpc[k] = "ok" =>
              tevents[k] = <<"text", "exit 0", "exit 0", "artifact read">>
        /\ CountOf(tevents[k], {"text empty"}) = 1 => renders[k] = 0
        /\ (Len(tevents[k]) >= 2 /\ tevents[k][2] = "exit nonzero") =>
              renders[k] = 1 /\ tpc[k] = "failed"
        /\ tpc[k] \in {"pass1", "pass2", "read"} => workdir[k] = "present"

\* One task succeeded after two passes, the other failed in its first pass.
C21_Witness ==
    /\ \E k \in TaskKeys : tpc[k] = "ok" /\ renders[k] = 2
    /\ \E k \in TaskKeys :
          tevents[k] = <<"text", "exit nonzero">> /\ renders[k] = 1

\* The error kind of a task failure, by the statement that raises it: line
\* 393 for an empty generation, lines 441-446 and 449-450 for the renderer.
GenerationErrorKind(msg) ==
    CASE msg = "GPT returned an empty LaTeX document." -> "EmptyGeneration"
      [] msg = "pdflatex failed" -> "RenderFailed"
      [] msg = "pdflatex did not produce a PDF file." -> "RenderFailed"
      [] OTHER -> "Other"

\* C22: a task that ended succeeded if and only if the generated text is not
\* empty after trimming, both render passes exited zero and the artifact
\* file existed; an empty text fails with EmptyGeneration, a non-zero exit of
\* either pass with RenderFailed, and two zero-exit passes that leave no
\* artifact with RenderFailed.
C22_TaskOutcome ==
    \A k \in TaskKeys :
        TaskEnded(k) =>
            /\ tpc[k] = "ok" <=>
                  /\ CountOf(tevents[k], {"text", "text empty"}) = 1
                  /\ Strip(tlatex[k]) # <<>>
                  /\ CountOf(tevents[k], {"exit 0"}) = 2
                  /\ Last(tevents[k]) = "artifact read"
            /\ (CountOf(tevents[k], {"text", "text empty"}) = 1
                    /\ Strip(tlatex[k]) = <<>>) =>
                  /\ tpc[k] = "failed"
                  /\ GenerationErrorKind(tmsg[k]) = "EmptyGeneration"
            /\ Last(tevents[k]) = "exit nonzero" =>
                  /\ tpc[k] = "failed"
                  /\ GenerationErrorKind(tmsg[k]) = "RenderFailed"
            /\ (CountOf(tevents[k], {"exit 0"}) = 2
                    /\ Last(tevents[k]) = "artifact missing") =>
                  /\ tpc[k] = "failed"
                  /\ GenerationErrorKind(tmsg[k]) = "RenderFailed"

\* A whitespace-only generation failed as EmptyGeneration next to a task
\* whose two zero-exit passes left no artifact.
C22_Witness ==
    /\ \E k \in TaskKeys :
          /\ tpc[k] = "failed"
          /\ tlatex[k] = <<" ">>
          /\ tmsg[k] = "GPT returned an empty LaTeX document."
    /\ \E k \in TaskKeys :
          /\ tpc[k] = "failed"
          /\ tevents[k] = <<"text", "exit 0", "exit 0", "artifact missing">>

(***************************************************************************)
(* Exporter output files                                                   *)
(***************************************************************************)
\* C23: no exporter output file remains once the run has ended: every
\* temporary output file _export_chunk created was removed by the time the
\* export returned or failed, a missing or failing export tool included.
C23_NoExporterFileRemains == Terminated => chunkFiles = 0

\* The export tool exited non-zero in the first export; the run failed and
\* the output file of that export is still on disk.
C23_Witness ==
    /\ pc = "failed"
    /\ error = "ExportToolFailed"
    /\ exportLog = <<>>
    /\ chunkFiles = 1

(***************************************************************************)
(* Segments shorter than the minimum                                       *)
(***************************************************************************)
ShortExports == { i \in 1..Len(exportLog) : exportLog[i].duration_ms < _MIN_CHUNK_MS }

\* C24: every accepted segment other than the final one of the source lasts
\* at least _MIN_CHUNK_MS; a segment shorter than the minimum is requested
\* only as the last one, when less than the minimum remains of the source,
\* never by a shrink; and such a short final segment that exceeds the
\* budget fails the run with ChunkTooLarge without a shrink attempt.
C24_ShortOnlyLast ==
    /\ \A i \in 1..Len(accepted) :
          accepted[i].end_ms - accepted[i].start_ms < _MIN_CHUNK_MS =>
              /\ accepted[i].end_ms = total_ms
              /\ i = Len(accepted)
              /\ pc # "export"
    /\ \A i \in ShortExports :
          /\ exportLog[i].start_ms + exportLog[i].duration_ms = total_ms
          /\ total_ms - exportLog[i].start_ms < _MIN_CHUNK_MS
          /\ i \in FirstExportsOfSegments
          /\ i = Len(exportLog)
          /\ exportLog[i].size > max_chunk_bytes =>
                /\ pc = "failed"
                /\ ErrorKind(error) = "ChunkTooLarge"
                /\ Len(accepted) = exportLog[i].chunk_index
    /\ (pc = "export" /\ target_duration < _MIN_CHUNK_MS) =>
          start_ms + target_duration = total_ms

\* After an accepted segment less than the minimum remained; the export of
\* that rest was over budget and the run failed at once.
C24_Witness ==
    /\ pc = "failed"
    /\ error = "ChunkTooLarge"
    /\ Len(accepted) >= 1
    /\ Last(exportLog).duration_ms < _MIN_CHUNK_MS
    /\ Last(exportLog).size > max_chunk_bytes

(***************************************************************************)
(* The outcome of generate_latex_documents under every completion order    *)
(***************************************************************************)
\* The orders in which as_completed may hand the futures over.
CompletionOrders ==
    { order \in [1..Len(tasks) -> TaskKeys] :
        \A i, j \in 1..Len(tasks) : i # j => order[i] # order[j] }

\* lines 346-351 run over the futures in the given order, with the outcome
\* each task has in this state.
RECURSIVE ErrorsInOrder(_)
ErrorsInOrder(order) ==
    IF order = <<>> THEN <<>>
    ELSE LET before == ErrorsInOrder(SubSeq(order, 1, Len(order) - 1))
             k == order[Len(order)]
         IN  IF tpc[k] = "failed" THEN AppendError(before, k, tmsg[k]) ELSE before

RECURSIVE DocumentsInOrder(_)
DocumentsInOrder(order) ==
    IF order = <<>> THEN <<>>
    ELSE LET before == DocumentsInOrder(SubSeq(order, 1, Len(order) - 1))
             k == order[Len(order)]
         IN  IF tpc[k] = "ok"
             THEN Append(before, GeneratedDocument(k, tlatex[k], <<"pdf", k>>))
             ELSE before

\* lines 353-362 after that loop.
OutcomeFor(order) ==
    IF ErrorsCollected(ErrorsInOrder(order))
    THEN [kind |-> "raised", errors |-> ErrorsInOrder(order), documents |-> <<>>]
    ELSE [kind |-> "returned", errors |-> <<>>,
          documents |-> SortByOrdering(DocumentsInOrder(order))]

Outcome == [kind |-> opc, errors |-> raised, documents |-> result]

\* C26: the outcome of generate_latex_documents is a function of the
\* per-task outcomes only: every completion order of the same task outcomes
\* gives the returned list or the aggregate error this call ended with, the
\* order in which the aggregate error lists the failed tasks included.
C26_CompletionOrderIrrelevant ==
    GenerateEnded => \A order \in CompletionOrders : OutcomeFor(order) = Outcome

\* Both tasks failed and the aggregate error lists the second descriptor's
\* task first, because it completed first.
C26_Witness ==
    /\ opc = "raised"
    /\ KeysOf(raised) = <<"spoken-script", "study-notes">>

(***************************************************************************)
(* The text taken from a response                                          *)
(***************************************************************************)
\* The text payloads a response carries, in the order of the normalizer:
\* the response itself when it is a plain string; otherwise its output_text
\* and then its text field, each when it is a list of parts or a string;
\* then the concatenated text of its nested content blocks.
FieldPayload(field) ==
    IF field.type \in {"list", "str"} THEN <<Join(field.parts)>> ELSE <<>>

Payloads(response) ==
    IF response.kind = "str" THEN <<response.value>>
    ELSE FieldPayload(response.output_text) \o FieldPayload(response.text)
            \o (IF OutputTexts(response.output) # <<>>
                THEN <<Join(OutputTexts(response.output))>> ELSE <<>>)

\* The payloads with text behind payloads that are present but empty.
TextBehindEmpty(ps) ==
    { i \in 1..Len(ps) : Strip(ps[i]) # <<>> /\ \A j \in 1..(i - 1) : ps[j] = <<>> }

CalledTasks == { k \in TaskKeys : tresponse[k] # NoneVal }

\* C25: _extract_response_text returns the first available text payload of
\* the response, in the order plain string, output_text, text, nested
\* content blocks; and when an earlier payload is present but empty while a
\* later one carries non-empty text, the task gets that text and does not
\* fail with EmptyGeneration.
C25_FirstAvailableText ==
    \A k \in CalledTasks :
        LET ps == Payloads(tresponse[k][1])
        IN  ps # <<>> =>
                IF TextBehindEmpty(ps) # {}
                THEN /\ \E i \in TextBehindEmpty(ps) : tlatex[k] = ps[i]
                     /\ GenerationErrorKind(tmsg[k]) # "EmptyGeneration"
                ELSE tlatex[k] = ps[1]

\* What the code does: the first payload that is present, empty or not.
FirstPresentPayload ==
    \A k \in CalledTasks :
        LET ps == Payloads(tresponse[k][1])
        IN  tlatex[k] = IF ps # <<>> THEN ps[1] ELSE StrOfResponse

\* The response had an empty output_text and content blocks with text; the
\* task failed with the empty-generation error.
C25_Witness ==
    \E k \in TaskKeys :
        /\ tresponse[k] = Some(ObjectResponse(StrField(<<>>), NoField, OutputWithText))
        /\ tpc[k] = "failed"
        /\ tmsg[k] = "GPT returned an empty LaTeX document."

(***************************************************************************)
(* The front end (checked under SpecApp)                                   *)
(***************************************************************************)
\* The text of the chunk with index i.
TextOfIndex(chunks, i) ==
    TextChars(chunks[CHOOSE j \in 1..Len(chunks) : chunks[j].chunk_index = i].text)

\* The chunk texts in chunk_index order, the empty ones skipped, with a
\* blank line between two texts.
RECURSIVE JoinedFrom(_, _)
JoinedFrom(chunks, i) ==
    IF i >= Len(chunks) THEN <<>>
    ELSE LET rest == JoinedFrom(chunks, i + 1)
         IN  IF TextOfIndex(chunks, i) = <<>> THEN rest
             ELSE IF rest = <<>> THEN TextOfIndex(chunks, i)
             ELSE TextOfIndex(chunks, i) \o <<"LF", "LF">> \o rest

AllTextsEmpty == \A i \in 1..Len(yielded) : yielded[i].text = ""

GenerationInvoked == opc = "idle" /\ opc' # "idle"

\* C27: generate_latex_documents is invoked only after the transcription
\* run has ended normally and only with a non-empty transcript: a run that
\* failed, or whose chunk texts are all empty, ends the request without an
\* invocation; and the transcript of an invocation is the chunk texts
\* joined in chunk_index order, the empty ones skipped.
C27_GenerationAfterTranscription ==
    /\ [](opc # "idle" =>
            /\ apc = "generating"
            /\ pc = "none"
            /\ transcript # <<>>
            /\ transcript = state.transcript)
    /\ [][(apc = "transcribing" /\ apc' = "generating") =>
            /\ pc = "done"
            /\ error = "none"
            /\ ~AllTextsEmpty
            /\ state'.transcript = JoinedFrom(yielded, 0)
            /\ state'.transcript # <<>>]_vars
    /\ [][(apc = "transcribing" /\ (pc = "failed" \/ (pc = "done" /\ AllTextsEmpty))) =>
            /\ apc' = "idle"
            /\ opc' = "idle"]_vars
    /\ [][GenerationInvoked =>
            /\ apc = "generating"
            /\ handled = "running"
            /\ transcript' = state.transcript]_vars

\* Two chunks with different texts were joined and generation runs on them.
C27_Witness ==
    /\ opc = "collecting"
    /\ transcript = <<"u", "LF", "LF", "w">>

\* C28: between requests, a non-empty document list in the session state
\* comes with an empty error and was generated from the transcript the state
\* holds; a request that fails during transcription or returns no text
\* leaves transcript, documents and error as they were; and a request whose
\* generation fails stores the new transcript, an empty document list and a
\* non-empty error.
C28_SessionStateConsistent ==
    /\ []((apc = "idle" /\ state.documents # <<>>) =>
            /\ state.error = <<>>
            /\ documentsFrom = state.transcript
            /\ state.transcript # <<>>)
    /\ [](handled \in {"missing key", "error shown", "exception", "no text",
                       "generation failed", "documents"} => apc = "idle")
    /\ [][(apc = "transcribing" /\ apc' = "idle") =>
            /\ state' = state
            /\ handled' \in {"error shown", "exception", "no text"}]_vars
    /\ [][handled' = "missing key" => state' = state]_vars
    /\ [][(apc = "generating" /\ opc = "raised" /\ apc' = "idle") =>
            /\ state'.transcript = transcript
            /\ state'.documents = <<>>
            /\ state'.error # <<>>
            /\ handled' = "generation failed"]_vars
    /\ [][(apc = "generating" /\ opc = "returned" /\ apc' = "idle") =>
            /\ state'.transcript = transcript
            /\ state'.documents = result
            /\ state'.error = <<>>]_vars

\* A request failed during transcription after an earlier request had
\* stored documents, which are still there.
C28_Witness ==
    /\ apc = "idle"
    /\ handled = "error shown"
    /\ state.documents # <<>>
    /\ state.transcript = <<"w">>

====
